---- MODULE Spec2Model ----
(***************************************************************************)
(* Agent Control Center: the task dispatcher (task_dispatch.rs), the IPC   *)
(* handlers that reach it (ipc.rs) and the record store they share.        *)
(*                                                                         *)
(* Every handler is an async function: each `.await` on a store call is a  *)
(* suspension point, so one store call (plus the synchronous code that     *)
(* follows it up to the next await) is one atomic step of a handler, and   *)
(* the steps of concurrently running handlers interleave freely.           *)
(*                                                                         *)
(* The agentos variant (agentos/src-tauri/src/main.rs) keeps its agents    *)
(* and activities in memory behind mutexes: each of its commands is one    *)
(* atomic step. It has its own variables and its own specification.       *)
(***************************************************************************)
EXTENDS Integers, Sequences, FiniteSets, TLC

(* ------------------------------ bounds --------------------------------- *)
\* concurrently running command handlers
NumProcs == 2
\* agents that can be created
NumAgents == 2
\* tasks that can be created (fresh ids)
MaxTasks == 2
\* handler invocations in one behaviour
MaxOps == 3
\* storage failures injected in one behaviour (SpecFaults only)
MaxFaults == 1
\* threads that run command handlers at the level of their locks (SpecLocks)
NumThreads == 2
\* handlers run in one behaviour of SpecLocks
MaxLockOps == 3
\* words in an instruction text handed to the text functions (SpecText)
MaxWords == 2

(* ------------------------- program constants --------------------------- *)
\* generate_mock_thoughts returns a vec of five thoughts
NumThoughts == 5
\* agent.stats.estimated_cost_cents += 5
MockCostCents == 5
\* extract_keywords: .take(5)
MaxKeywords == 5
\* MockAgentService: every category has three responses
NumResponses == 3

Procs == 1..NumProcs
AgentIds == 1..NumAgents
TaskIds == 1..MaxTasks
\* Option<Uuid>::None
None == 0

(* ------------------------------ models.rs ------------------------------ *)
AgentStatus == {"Running", "Idle", "Paused", "Error"}
TaskStatus == {"Pending", "Running", "Completed", "Failed", "Cancelled"}
TaskPriority == {"Low", "Medium", "High", "Critical"}
TaskPriorityDefault == "Medium"

\* Agent::new; timestamps are kept as "is set" flags
AgentNew(id, name) ==
    [id |-> id, name |-> name, status |-> "Idle", current_task_id |-> None,
     last_activity |-> FALSE, tasks_completed |-> 0, tasks_failed |-> 0,
     total_api_calls |-> 0, estimated_cost_cents |-> 0]

NoResult == [kind |-> "none", arg |-> <<>>]

\* Task::new
TaskNew(id, agent_id, instruction) ==
    [id |-> id, agent_id |-> agent_id, instruction |-> instruction,
     status |-> "Pending", priority |-> TaskPriorityDefault,
     started_at |-> FALSE, completed_at |-> FALSE,
     result |-> NoResult, error |-> ""]

\* ActivityEvent::new(..).with_task(..); idx numbers the thoughts of a task
ActivityEvent(agent_id, task_id, event_type, idx) ==
    [agent_id |-> agent_id, task_id |-> task_id, event_type |-> event_type, idx |-> idx]

\* TaskEvent, the payload of the broadcast channel
TaskEvent(kind, task_id, idx) ==
    [kind |-> kind, task_id |-> task_id, idx |-> idx]

(* ------------------------------- inputs -------------------------------- *)
\* instructions are sequences of characters
Instructions ==
    { <<>>, <<" ", " ">>, <<"f", "i", "x">> }
\* request.priority: Option<TaskPriority>
PriorityInputs == {"None", "High"}
\* request.name of UpdateAgentRequest
NameInputs == {"beta"}
ErrorMessages == {"boom"}

(* ------------------------------- state --------------------------------- *)
VARIABLES
    agents,     \* store: agent id -> Agent
    tasks,      \* store: task id -> Task
    events,     \* store: the activity log, oldest first
    sent,       \* every TaskEvent handed to event_sender.send, in order
    h,          \* the handlers: h[p] is handler p's operation, position and locals
    nextAgent,  \* fresh agent ids (Uuid::new_v4)
    nextTask,   \* fresh task ids (Uuid::new_v4)
    last,       \* the handler call that returned last, and its answer
    nops,       \* handler invocations so far
    faults,     \* storage failures so far
    os_agents,      \* agentos AppState.agents: the Vec behind the mutex
    os_activities,  \* agentos AppState.activities
    os_resp,        \* agentos: the IpcResponse of the last command
    os_next,        \* agentos: fresh agent ids (Uuid::new_v4)
    os_nops,        \* agentos: commands run so far
    rx,         \* the receivers of the dispatcher's broadcast channel
    blob,       \* the JSON text the last export_data returned
    snap,       \* the store as it was when that text was exported
    storage,    \* agentos Storage (storage.rs): the sqlite tables
    database,   \* agent-control Database (database.rs): the sqlite tables
    mock,       \* the last call of a text function: its input and its answer
    lk          \* the locks of the command handlers and the threads that take them

\* the state of the agentos variant (agentos/src-tauri/src/main.rs)
os == <<os_agents, os_activities, os_resp, os_next, os_nops>>

\* the state of the Agent Control Center
acc == <<agents, tasks, events, sent, h, last, nextAgent, nextTask, nops, faults>>

\* the channel's receivers, the exported data and the two sqlite variants
ext == <<rx, blob, snap, storage, database, mock, lk>>

vars == <<agents, tasks, events, sent, h, last, nextAgent, nextTask, nops, faults,
          os_agents, os_activities, os_resp, os_next, os_nops,
          rx, blob, snap, storage, database, mock, lk>>

NoAgent == AgentNew(None, "")
NoTask == TaskNew(None, None, <<>>)

\* agentos: no command has answered yet
OsNoResponse == [cmd |-> "none", agent_id |-> None, success |-> FALSE, pre |-> "none"]

\* a handler slot that runs nothing
IdleHandler ==
    [op |-> "idle", pc |-> "idle", agent_id |-> None, task_id |-> None,
     agent |-> NoAgent, task |-> NoTask, instruction |-> <<>>, i |-> 0,
     priority |-> "None", arg |-> "", pre |-> "none"]

\* a sqlite database right after its schema is created; `fk` says whether
\* this build of sqlite enforces the declared foreign keys
EmptyTables(fk) ==
    [agents |-> {}, tasks |-> {}, events |-> << >>, fk |-> fk, next |-> 1,
     nops |-> 0, resp |-> [cmd |-> "none", res |-> "none"]]

\* agent-control Database: its agents carry a status and a current task
EmptyDatabase(fk) == [EmptyTables(fk) EXCEPT !.agents = << >>]

\* TaskDispatcher::new drops the receiver broadcast::channel returns
\* no text function has been called
NoCall == [fn |-> "none", text |-> << >>, out |-> << >>]

\* the command threads; each runs one handler at a time
Threads == 1..NumThreads

\* no thread runs a handler and no lock is held
NoLocks ==
    [th |-> [t \in Threads |-> [cmd |-> "idle", found |-> FALSE, held |-> << >>]],
     n |-> 0]

InitExt ==
    /\ rx = << >>
    /\ blob = << >>
    /\ snap = << >>
    /\ storage = EmptyTables(FALSE)
    /\ database = EmptyDatabase(FALSE)
    /\ mock = NoCall
    /\ lk = NoLocks

InitStore ==
    /\ agents = << >>
    /\ tasks = << >>
    /\ events = << >>
    /\ sent = << >>
    /\ h = [p \in Procs |-> IdleHandler]
    /\ last = [op |-> "none", res |-> "none", pre |-> "none", agent_id |-> None,
               task_id |-> None, instruction |-> <<>>]
    /\ nextAgent = 1
    /\ nextTask = 1
    /\ nops = 0
    /\ faults = 0
    /\ os_agents = << >>
    /\ os_activities = << >>
    /\ os_resp = OsNoResponse
    /\ os_next = 1
    /\ os_nops = 0

Init == InitStore /\ InitExt

(* ------------------- the record store (storage.rs) --------------------- *)
\* the event cap of the store
MaxEvents == 1000

\* mutant: the store evicts nothing
StoreAddEvent_NoCap(es, e) == Append(es, e)

\* Storage::add_event: append, then evict the oldest events past the cap
StoreAddEvent(es, e) ==
    LET s == Append(es, e)
    IN  IF Len(s) > MaxEvents THEN SubSeq(s, Len(s) - MaxEvents + 1, Len(s)) ELSE s

\* Storage::create_agent / create_task: insert under the record's id
StoreInsert(m, r) == m @@ (r.id :> r)

\* Storage::update_agent / update_task: full-record replace
StoreReplace(m, r) == [m EXCEPT ![r.id] = r]

\* Storage::get_agent / get_task find the record, or fail with NotFound
StoreHas(m, id) == id \in DOMAIN m

(* --------------------------- handler helpers --------------------------- *)
\* what a handler leaves behind when it returns: the call and its answer
Returned(hp, res) ==
    [op |-> hp.op, res |-> res, pre |-> hp.pre, agent_id |-> hp.agent_id,
     task_id |-> hp.task_id, instruction |-> hp.instruction]

\* handler p returns `res` to its caller and its slot is free again
Ret(p, hp, res) ==
    /\ h' = [h EXCEPT ![p] = IdleHandler]
    /\ last' = Returned(hp, res)

\* handler p goes on with the locals hp
Go(p, hp) ==
    /\ h' = [h EXCEPT ![p] = hp]
    /\ last' = last

\* the same, given the whole of h
Goto(p, hn) ==
    /\ h' = hn
    /\ last' = last

\* handler p starts operation op
Begin(op, pc) == [IdleHandler EXCEPT !.op = op, !.pc = pc]

\* mutant: execute_task takes the dispatcher's lock for writing
DispatcherLockMode_ExecuteExclusive(op) == IF op = "execute" THEN "write" ELSE "read"

\* `state.dispatcher.read().await`: a handler holds the dispatcher's RwLock in
\* shared mode from its first step to its return
DispatcherLockMode(op) == "read"

\* a new handler may start in slot p: the slots are interchangeable, the lowest
\* free one is taken; it is let in by the dispatcher's lock unless a handler
\* in flight holds that lock for writing
CanStart(p) ==
    /\ h[p].pc = "idle"
    /\ \A q \in 1..(p - 1) : h[q].pc # "idle"
    /\ nops < MaxOps
    /\ \A q \in Procs : h[q].pc # "idle" => DispatcherLockMode(h[q].op) # "write"

(* --------------------------- ipc.rs: agents ---------------------------- *)
\* create_agent: Agent::new, then storage.create_agent
create_agent ==
    /\ nextAgent <= NumAgents
    /\ agents' = StoreInsert(agents, AgentNew(nextAgent, "alpha"))
    /\ nextAgent' = nextAgent + 1
    /\ UNCHANGED <<tasks, events, sent, h, last, nextTask, nops, faults, os, ext>>

(* ---------------------- TaskDispatcher::dispatch ----------------------- *)
IsWhitespace(c) == c \in {" ", "\t", "\n"}

\* request.instruction.trim().is_empty()
TrimIsEmpty(s) == \A k \in 1..Len(s) : IsWhitespace(s[k])

\* mutant: dispatch without the test for a Running agent
DispatchAdmission_NoRunningCheck(found, agent, instruction) ==
    IF ~found THEN "NotFound"
    ELSE IF TrimIsEmpty(instruction) THEN "InvalidTask"
    ELSE "Ok"

\* mutant: dispatch without the test of the instruction
DispatchAdmission_NoInstructionCheck(found, agent, instruction) ==
    IF ~found THEN "NotFound"
    ELSE IF agent.status = "Running" THEN "AgentNotAvailable"
    ELSE "Ok"

\* the admission checks of dispatch, in the order of the code
DispatchAdmission(found, agent, instruction) ==
    IF ~found THEN "NotFound"
    ELSE IF agent.status = "Running" THEN "AgentNotAvailable"
    ELSE IF TrimIsEmpty(instruction) THEN "InvalidTask"
    ELSE "Ok"

\* request.priority.unwrap_or(TaskPriority::Medium)
UnwrapPriority(priority) == IF priority = "None" THEN "Medium" ELSE priority

\* mutant: dispatch forgets to record the task on the agent
DispatchedAgent_NoCurrentTask(agent, task_id) ==
    [agent EXCEPT !.status = "Running", !.last_activity = TRUE]

\* the agent record dispatch writes back: its copy from admission, now Running
DispatchedAgent(agent, task_id) ==
    [agent EXCEPT !.status = "Running", !.current_task_id = task_id,
                  !.last_activity = TRUE]

\* get_agent, the checks, Task::new
dispatch(p, agent_id, instruction, priority) ==
    LET found == StoreHas(agents, agent_id)
        agent == IF found THEN agents[agent_id] ELSE NoAgent
        adm   == DispatchAdmission(found, agent, instruction)
        start == [Begin("dispatch", "d_create_task") EXCEPT
                    !.agent_id = agent_id, !.agent = agent, !.instruction = instruction,
                    !.priority = priority, !.pre = IF found THEN agent.status ELSE "absent"]
    IN  /\ CanStart(p)
        /\ nops' = nops + 1
        /\ IF adm # "Ok"
           THEN /\ Ret(p, start, adm)
                /\ UNCHANGED nextTask
           ELSE /\ nextTask <= MaxTasks
                /\ Go(p, [start EXCEPT !.task_id = nextTask,
                              !.task = [TaskNew(nextTask, agent_id, instruction)
                                          EXCEPT !.priority = UnwrapPriority(priority)]])
                /\ nextTask' = nextTask + 1
        /\ UNCHANGED <<agents, tasks, events, sent, nextAgent, faults, os, ext>>

\* storage.create_task(task)
dispatch_create_task(p) ==
    /\ h[p].pc = "d_create_task"
    /\ IF StoreHas(agents, h[p].agent_id)
       THEN /\ tasks' = StoreInsert(tasks, h[p].task)
            /\ Goto(p, [h EXCEPT ![p].pc = "d_update_agent"])
       ELSE /\ Ret(p, h[p], "NotFound")
            /\ UNCHANGED tasks
    /\ UNCHANGED <<agents, events, sent, nextAgent, nextTask, nops, faults, os, ext>>

\* mutant: the Started notification goes out with the agent update, before
\* the task-started event is stored
dispatch_update_agent_SendsFirst(p) ==
    /\ h[p].pc = "d_update_agent"
    /\ IF StoreHas(agents, h[p].agent_id)
       THEN /\ agents' = StoreReplace(agents, DispatchedAgent(h[p].agent, h[p].task.id))
            /\ sent' = Append(sent, TaskEvent("Started", h[p].task.id, 0))
            /\ Goto(p, [h EXCEPT ![p].pc = "d_add_event"])
       ELSE /\ Ret(p, h[p], "NotFound")
            /\ UNCHANGED <<agents, sent>>
    /\ UNCHANGED <<tasks, events, nextAgent, nextTask, nops, faults, os, ext>>

\* agent.status = Running; ...; storage.update_agent(agent)
dispatch_update_agent(p) ==
    /\ h[p].pc = "d_update_agent"
    /\ IF StoreHas(agents, h[p].agent_id)
       THEN /\ agents' = StoreReplace(agents, DispatchedAgent(h[p].agent, h[p].task.id))
            /\ Goto(p, [h EXCEPT ![p].pc = "d_add_event"])
       ELSE /\ Ret(p, h[p], "NotFound")
            /\ UNCHANGED agents
    /\ UNCHANGED <<tasks, events, sent, nextAgent, nextTask, nops, faults, os, ext>>

\* event_sender.send(event): Err(SendError) when no receiver is subscribed;
\* send never waits for a receiver
ChannelSend == IF rx = << >> THEN "SendError" ELSE "Ok"

\* mutant: the handler hands the error of send to its caller
SendDropped_Propagated(send_result, res) ==
    IF send_result = "Ok" THEN res ELSE send_result

\* `let _ = self.event_sender.send(..)`: the Result of send is dropped and the
\* handler goes on to `res`
SendDropped(send_result, res) == res

\* storage.add_event(TaskStarted), event_sender.send(Started), Ok(response)
dispatch_add_event(p) ==
    /\ h[p].pc = "d_add_event"
    /\ events' = StoreAddEvent(events,
                    ActivityEvent(h[p].agent_id, h[p].task.id, "TaskStarted", 0))
    /\ sent' = Append(sent, TaskEvent("Started", h[p].task.id, 0))
    /\ Ret(p, h[p], SendDropped(ChannelSend, "Ok"))
    /\ UNCHANGED <<agents, tasks, nextAgent, nextTask, nops, faults, os, ext>>

(* ----------------- the execution pipeline (mock results) ---------------- *)
UpperCase == <<"A","B","C","D","E","F","G","H","I","J","K","L","M",
               "N","O","P","Q","R","S","T","U","V","W","X","Y","Z">>
LowerCase == <<"a","b","c","d","e","f","g","h","i","j","k","l","m",
               "n","o","p","q","r","s","t","u","v","w","x","y","z">>

\* char::to_lowercase on the ASCII letters
LowerChar(c) ==
    IF \E k \in 1..26 : UpperCase[k] = c
    THEN LowerCase[CHOOSE k \in 1..26 : UpperCase[k] = c]
    ELSE c

\* str::to_lowercase
ToLowercase(s) == [k \in 1..Len(s) |-> LowerChar(s[k])]

\* str::contains(pattern)
Contains(s, w) ==
    \E k \in 0..(Len(s) - Len(w)) : \A j \in 1..Len(w) : s[k + j] = w[j]

\* truncate(s, max_len)
truncate(s, max_len) == IF Len(s) <= max_len THEN s ELSE SubSeq(s, 1, max_len)

\* mutant: the fix/resolve bucket is tested before analyze/review
generate_mock_result_FixFirst(instruction) ==
    LET low == ToLowercase(instruction)
    IN  IF Contains(low, <<"f","i","x">>)
           \/ Contains(low, <<"r","e","s","o","l","v","e">>)
        THEN [kind |-> "Issue resolved", arg |-> <<>>]
        ELSE IF Contains(low, <<"a","n","a","l","y","z","e">>)
                \/ Contains(low, <<"r","e","v","i","e","w">>)
        THEN [kind |-> "Analysis complete", arg |-> <<>>]
        ELSE IF Contains(low, <<"c","r","e","a","t","e">>)
                \/ Contains(low, <<"b","u","i","l","d">>)
        THEN [kind |-> "Task completed successfully", arg |-> <<>>]
        ELSE IF Contains(low, <<"t","e","s","t">>)
                \/ Contains(low, <<"v","e","r","i","f","y">>)
        THEN [kind |-> "Testing complete", arg |-> <<>>]
        ELSE [kind |-> "Task completed", arg |-> truncate(instruction, 30)]

\* generate_mock_result: the first matching bucket decides the text
generate_mock_result(instruction) ==
    LET low == ToLowercase(instruction)
    IN  IF Contains(low, <<"a","n","a","l","y","z","e">>)
           \/ Contains(low, <<"r","e","v","i","e","w">>)
        THEN [kind |-> "Analysis complete", arg |-> <<>>]
        ELSE IF Contains(low, <<"c","r","e","a","t","e">>)
                \/ Contains(low, <<"b","u","i","l","d">>)
        THEN [kind |-> "Task completed successfully", arg |-> <<>>]
        ELSE IF Contains(low, <<"f","i","x">>)
                \/ Contains(low, <<"r","e","s","o","l","v","e">>)
        THEN [kind |-> "Issue resolved", arg |-> <<>>]
        ELSE IF Contains(low, <<"t","e","s","t">>)
                \/ Contains(low, <<"v","e","r","i","f","y">>)
        THEN [kind |-> "Testing complete", arg |-> <<>>]
        ELSE [kind |-> "Task completed", arg |-> truncate(instruction, 30)]

\* ((i + 1) as f32 / thoughts.len() as f32 * 80.0) as u8, for the 0-based step i
ProgressPct(i) == ((i + 1) * 80) \div NumThoughts

(* ----------------- TaskDispatcher::simulate_execution ------------------ *)
\* task.status = Running; task.started_at = Some(now)
RunningTask(task) == [task EXCEPT !.status = "Running", !.started_at = TRUE]

\* task.status = Completed; completed_at and result set
CompletedTask(task) ==
    [task EXCEPT !.status = "Completed", !.completed_at = TRUE,
                 !.result = generate_mock_result(task.instruction)]

\* the agent record execute writes back after completion
CompletedAgent(agent) ==
    [agent EXCEPT !.status = "Idle", !.current_task_id = None, !.last_activity = TRUE,
                  !.tasks_completed = @ + 1, !.total_api_calls = @ + 1,
                  !.estimated_cost_cents = @ + MockCostCents]

\* storage.get_task(task_id)
simulate_execution(p, task_id) ==
    /\ CanStart(p)
    /\ nops' = nops + 1
    /\ IF StoreHas(tasks, task_id)
       THEN Go(p, [Begin("execute", "e_start") EXCEPT
                       !.task_id = task_id, !.task = tasks[task_id],
                       !.agent_id = tasks[task_id].agent_id,
                       !.pre = tasks[task_id].status])
       ELSE Ret(p, [Begin("execute", "e_start") EXCEPT
                              !.task_id = task_id, !.pre = "absent"], "NotFound")
    /\ UNCHANGED <<agents, tasks, events, sent, nextAgent, nextTask, faults, os, ext>>

\* storage.update_task(task) with the task Running
execute_start(p) ==
    /\ h[p].pc = "e_start"
    /\ IF StoreHas(tasks, h[p].task_id)
       THEN /\ tasks' = StoreReplace(tasks, RunningTask(h[p].task))
            /\ Goto(p, [h EXCEPT ![p].pc = "e_thought", ![p].task = RunningTask(h[p].task)])
       ELSE /\ Ret(p, h[p], "NotFound")
            /\ UNCHANGED tasks
    /\ UNCHANGED <<agents, events, sent, nextAgent, nextTask, nops, faults, os, ext>>

\* one turn of the thought loop: add_event, two sends, then the sleep
execute_thought(p) ==
    /\ h[p].pc = "e_thought"
    /\ events' = StoreAddEvent(events,
                    ActivityEvent(h[p].agent_id, h[p].task_id, "ThoughtLog", h[p].i + 1))
    /\ sent' = sent \o << TaskEvent("ThoughtLog", h[p].task_id, h[p].i + 1),
                          TaskEvent("Progress", h[p].task_id, ProgressPct(h[p].i)) >>
    /\ IF SendDropped(ChannelSend, "Ok") = "Ok"
       THEN Goto(p, [h EXCEPT ![p].i = @ + 1,
                           ![p].pc = IF h[p].i + 1 < NumThoughts THEN "e_thought"
                                     ELSE "e_api_call"])
       ELSE Ret(p, h[p], SendDropped(ChannelSend, "Ok"))
    /\ UNCHANGED <<agents, tasks, nextAgent, nextTask, nops, faults, os, ext>>

\* storage.add_event(ApiCall), send(ApiCall)
execute_api_call(p) ==
    /\ h[p].pc = "e_api_call"
    /\ events' = StoreAddEvent(events,
                    ActivityEvent(h[p].agent_id, h[p].task_id, "ApiCall", 0))
    /\ sent' = Append(sent, TaskEvent("ApiCall", h[p].task_id, 0))
    /\ IF SendDropped(ChannelSend, "Ok") = "Ok"
       THEN Goto(p, [h EXCEPT ![p].pc = "e_complete_task"])
       ELSE Ret(p, h[p], SendDropped(ChannelSend, "Ok"))
    /\ UNCHANGED <<agents, tasks, nextAgent, nextTask, nops, faults, os, ext>>

\* storage.update_task(task) with the task Completed
execute_complete_task(p) ==
    /\ h[p].pc = "e_complete_task"
    /\ IF StoreHas(tasks, h[p].task_id)
       THEN /\ tasks' = StoreReplace(tasks, CompletedTask(h[p].task))
            /\ Goto(p, [h EXCEPT ![p].pc = "e_get_agent",
                              ![p].task = CompletedTask(h[p].task)])
       ELSE /\ Ret(p, h[p], "NotFound")
            /\ UNCHANGED tasks
    /\ UNCHANGED <<agents, events, sent, nextAgent, nextTask, nops, faults, os, ext>>

\* storage.get_agent(agent_id): the handler's copy of the agent
get_agent(p, pc, next) ==
    /\ h[p].pc = pc
    /\ IF StoreHas(agents, h[p].agent_id)
       THEN Goto(p, [h EXCEPT ![p].pc = next, ![p].agent = agents[h[p].agent_id]])
       ELSE Ret(p, h[p], "NotFound")
    /\ UNCHANGED <<agents, tasks, events, sent, nextAgent, nextTask, nops, faults, os, ext>>

\* storage.update_agent(agent): write the handler's (changed) copy back
update_agent_step(p, pc, next, agent) ==
    /\ h[p].pc = pc
    /\ IF StoreHas(agents, h[p].agent_id)
       THEN /\ agents' = StoreReplace(agents, agent)
            /\ Goto(p, [h EXCEPT ![p].pc = next, ![p].agent = agent])
       ELSE /\ Ret(p, h[p], "NotFound")
            /\ UNCHANGED agents
    /\ UNCHANGED <<tasks, events, sent, nextAgent, nextTask, nops, faults, os, ext>>

execute_get_agent(p) == get_agent(p, "e_get_agent", "e_update_agent")

execute_update_agent(p) ==
    update_agent_step(p, "e_update_agent", "e_add_event", CompletedAgent(h[p].agent))

\* storage.add_event(TaskCompleted), send(Completed), Ok(task)
execute_add_event(p) ==
    /\ h[p].pc = "e_add_event"
    /\ events' = StoreAddEvent(events,
                    ActivityEvent(h[p].agent_id, h[p].task_id, "TaskCompleted", 0))
    /\ sent' = Append(sent, TaskEvent("Completed", h[p].task_id, 0))
    /\ Ret(p, h[p], SendDropped(ChannelSend, "Ok"))
    /\ UNCHANGED <<agents, tasks, nextAgent, nextTask, nops, faults, os, ext>>

(* ---------------------- TaskDispatcher::fail_task ---------------------- *)
\* task.status = Failed; completed_at and error set
FailedTask(task, error_message) ==
    [task EXCEPT !.status = "Failed", !.completed_at = TRUE, !.error = error_message]

\* mutant: fail_task leaves the agent assigned to the failed task
FailedAgent_KeepsTask(agent) ==
    [agent EXCEPT !.status = "Error", !.last_activity = TRUE, !.tasks_failed = @ + 1]

\* the agent record fail_task writes back
FailedAgent(agent) ==
    [agent EXCEPT !.status = "Error", !.current_task_id = None, !.last_activity = TRUE,
                  !.tasks_failed = @ + 1]

\* storage.get_task(task_id)
fail_task(p, task_id, error_message) ==
    /\ CanStart(p)
    /\ nops' = nops + 1
    /\ IF StoreHas(tasks, task_id)
       THEN Go(p, [Begin("fail", "f_update_task") EXCEPT
                       !.task_id = task_id, !.task = tasks[task_id],
                       !.agent_id = tasks[task_id].agent_id, !.arg = error_message,
                       !.pre = tasks[task_id].status])
       ELSE Ret(p, [Begin("fail", "f_update_task") EXCEPT
                              !.task_id = task_id, !.pre = "absent"], "NotFound")
    /\ UNCHANGED <<agents, tasks, events, sent, nextAgent, nextTask, faults, os, ext>>

\* storage.update_task(task) with the task Failed
fail_update_task(p) ==
    /\ h[p].pc = "f_update_task"
    /\ IF StoreHas(tasks, h[p].task_id)
       THEN /\ tasks' = StoreReplace(tasks, FailedTask(h[p].task, h[p].arg))
            /\ Goto(p, [h EXCEPT ![p].pc = "f_get_agent",
                              ![p].task = FailedTask(h[p].task, h[p].arg)])
       ELSE /\ Ret(p, h[p], "NotFound")
            /\ UNCHANGED tasks
    /\ UNCHANGED <<agents, events, sent, nextAgent, nextTask, nops, faults, os, ext>>

fail_get_agent(p) == get_agent(p, "f_get_agent", "f_update_agent")

fail_update_agent(p) ==
    update_agent_step(p, "f_update_agent", "f_add_event", FailedAgent(h[p].agent))

\* storage.add_event(TaskFailed), send(Failed), Ok(task)
fail_add_event(p) ==
    /\ h[p].pc = "f_add_event"
    /\ events' = StoreAddEvent(events,
                    ActivityEvent(h[p].agent_id, h[p].task_id, "TaskFailed", 0))
    /\ sent' = Append(sent, TaskEvent("Failed", h[p].task_id, 0))
    /\ Ret(p, h[p], SendDropped(ChannelSend, "Ok"))
    /\ UNCHANGED <<agents, tasks, nextAgent, nextTask, nops, faults, os, ext>>

(* --------------------- TaskDispatcher::cancel_task --------------------- *)
\* mutant: cancel refuses only completed and failed tasks
CanCancel_AlsoCancelled(status) == status # "Completed" /\ status # "Failed"

\* only pending or running tasks can be cancelled
CanCancel(status) == status = "Running" \/ status = "Pending"

\* task.status = Cancelled; completed_at set
CancelledTask(task) == [task EXCEPT !.status = "Cancelled", !.completed_at = TRUE]

\* mutant: cancel resets the owning agent whatever it is running
CancelTouchesAgent_Always(agent, task_id) == TRUE

\* cancel resets the agent only if it was running this task
CancelTouchesAgent(agent, task_id) == agent.current_task_id = task_id

\* the agent record cancel_task writes back
CancelledAgent(agent) ==
    [agent EXCEPT !.status = "Idle", !.current_task_id = None, !.last_activity = TRUE]

\* storage.get_task(task_id) and the status check
cancel_task(p, task_id) ==
    LET found == StoreHas(tasks, task_id)
        task  == IF found THEN tasks[task_id] ELSE NoTask
        start == [Begin("cancel", "c_update_task") EXCEPT
                    !.task_id = task_id, !.task = task, !.agent_id = task.agent_id,
                    !.pre = IF found THEN task.status ELSE "absent"]
    IN  /\ CanStart(p)
        /\ nops' = nops + 1
        /\ IF ~found THEN Ret(p, start, "NotFound")
           ELSE IF ~CanCancel(task.status) THEN Ret(p, start, "InvalidTask")
           ELSE Go(p, start)
        /\ UNCHANGED <<agents, tasks, events, sent, nextAgent, nextTask, faults, os, ext>>

\* storage.update_task(task) with the task Cancelled
cancel_update_task(p) ==
    /\ h[p].pc = "c_update_task"
    /\ IF StoreHas(tasks, h[p].task_id)
       THEN /\ tasks' = StoreReplace(tasks, CancelledTask(h[p].task))
            /\ Goto(p, [h EXCEPT ![p].pc = "c_get_agent",
                              ![p].task = CancelledTask(h[p].task)])
       ELSE /\ Ret(p, h[p], "NotFound")
            /\ UNCHANGED tasks
    /\ UNCHANGED <<agents, events, sent, nextAgent, nextTask, nops, faults, os, ext>>

\* storage.get_agent(agent_id) and the test of current_task_id
cancel_get_agent(p) ==
    /\ h[p].pc = "c_get_agent"
    /\ IF StoreHas(agents, h[p].agent_id)
       THEN Goto(p, [h EXCEPT ![p].agent = agents[h[p].agent_id],
                           ![p].pc = IF CancelTouchesAgent(agents[h[p].agent_id],
                                                           h[p].task_id)
                                     THEN "c_update_agent" ELSE "c_add_event"])
       ELSE Ret(p, h[p], "NotFound")
    /\ UNCHANGED <<agents, tasks, events, sent, nextAgent, nextTask, nops, faults, os, ext>>

cancel_update_agent(p) ==
    update_agent_step(p, "c_update_agent", "c_add_event", CancelledAgent(h[p].agent))

\* storage.add_event(Info), Ok(task); cancel sends nothing
cancel_add_event(p) ==
    /\ h[p].pc = "c_add_event"
    /\ events' = StoreAddEvent(events,
                    ActivityEvent(h[p].agent_id, h[p].task_id, "Info", 0))
    /\ Ret(p, h[p], "Ok")
    /\ UNCHANGED <<agents, tasks, sent, nextAgent, nextTask, nops, faults, os, ext>>

(* ------------- TaskDispatcher::pause / resume / reset_agent ------------- *)
PausedAgent(agent) == [agent EXCEPT !.status = "Paused", !.last_activity = TRUE]

ResumedAgent(agent) == [agent EXCEPT !.status = "Idle", !.last_activity = TRUE]

\* mutant: reset leaves the agent assigned to its task
ResetAgent_KeepsTask(agent) == [agent EXCEPT !.status = "Idle", !.last_activity = TRUE]

ResetAgent(agent) ==
    [agent EXCEPT !.status = "Idle", !.current_task_id = None, !.last_activity = TRUE]

\* mutant: pause without the test for an agent that is already Paused
PauseAdmission_NoCheck(agent) == "go"

\* what pause_agent does after get_agent: return at once, or go on to write
PauseAdmission(agent) == IF agent.status = "Paused" THEN "Ok" ELSE "go"

\* what resume_agent does after get_agent
ResumeAdmission(agent) == IF agent.status # "Paused" THEN "AgentNotAvailable" ELSE "go"

\* reset_agent has no check
ResetAdmission(agent) == "go"

\* the first step of pause, resume and reset: get_agent and the check
agent_op(p, agent_id, op, adm, pc) ==
    LET found == StoreHas(agents, agent_id)
        agent == IF found THEN agents[agent_id] ELSE NoAgent
        start == [Begin(op, pc) EXCEPT
                    !.agent_id = agent_id, !.agent = agent,
                    !.pre = IF found THEN agent.status ELSE "absent"]
    IN  /\ CanStart(p)
        /\ nops' = nops + 1
        /\ IF ~found THEN Ret(p, start, "NotFound")
           ELSE IF adm # "go" THEN Ret(p, start, adm)
           ELSE Go(p, start)
        /\ UNCHANGED <<agents, tasks, events, sent, nextAgent, nextTask, faults, os, ext>>

\* storage.add_event(StatusChange), Ok(agent)
status_event(p, pc) ==
    /\ h[p].pc = pc
    /\ events' = StoreAddEvent(events,
                    ActivityEvent(h[p].agent_id, None, "StatusChange", 0))
    /\ Ret(p, h[p], "Ok")
    /\ UNCHANGED <<agents, tasks, sent, nextAgent, nextTask, nops, faults, os, ext>>

pause_agent(p, agent_id) ==
    agent_op(p, agent_id, "pause",
             PauseAdmission(IF StoreHas(agents, agent_id) THEN agents[agent_id]
                            ELSE NoAgent), "p_update_agent")

pause_update_agent(p) ==
    update_agent_step(p, "p_update_agent", "p_add_event", PausedAgent(h[p].agent))

pause_add_event(p) == status_event(p, "p_add_event")

resume_agent(p, agent_id) ==
    agent_op(p, agent_id, "resume",
             ResumeAdmission(IF StoreHas(agents, agent_id) THEN agents[agent_id]
                             ELSE NoAgent), "r_update_agent")

resume_update_agent(p) ==
    update_agent_step(p, "r_update_agent", "r_add_event", ResumedAgent(h[p].agent))

resume_add_event(p) == status_event(p, "r_add_event")

reset_agent(p, agent_id) ==
    agent_op(p, agent_id, "reset",
             ResetAdmission(IF StoreHas(agents, agent_id) THEN agents[agent_id]
                            ELSE NoAgent), "s_update_agent")

reset_update_agent(p) ==
    update_agent_step(p, "s_update_agent", "s_add_event", ResetAgent(h[p].agent))

reset_add_event(p) == status_event(p, "s_add_event")

(* ------------------------ ipc.rs: update_agent ------------------------- *)
\* the partial update: request.name is Some(name)
RenamedAgent(agent, name) == [agent EXCEPT !.name = name]

\* storage.get_agent(id)
update_agent(p, agent_id, name) ==
    /\ CanStart(p)
    /\ nops' = nops + 1
    /\ IF StoreHas(agents, agent_id)
       THEN Go(p, [Begin("update_agent", "u_update_agent") EXCEPT
                       !.agent_id = agent_id, !.arg = name,
                       !.agent = agents[agent_id],
                       !.pre = agents[agent_id].status])
       ELSE Ret(p, [Begin("update_agent", "u_update_agent") EXCEPT
                              !.agent_id = agent_id, !.pre = "absent"], "NotFound")
    /\ UNCHANGED <<agents, tasks, events, sent, nextAgent, nextTask, faults, os, ext>>

\* the fields of the request applied to the copy, storage.update_agent(agent), Ok(agent)
update_agent_write(p) ==
    /\ h[p].pc = "u_update_agent"
    /\ IF StoreHas(agents, h[p].agent_id)
       THEN /\ agents' = StoreReplace(agents, RenamedAgent(h[p].agent, h[p].arg))
            /\ Ret(p, h[p], "Ok")
       ELSE /\ Ret(p, h[p], "NotFound")
            /\ UNCHANGED agents
    /\ UNCHANGED <<tasks, events, sent, nextAgent, nextTask, nops, faults, os, ext>>

(* ---------------------- ipc.rs: set_agent_status ----------------------- *)
\* the statuses a caller passes to set_agent_status
StatusInputs == {"Running", "Paused"}

\* agent.status = status; agent.last_activity = Some(now)
StatusSetAgent(agent, status) == [agent EXCEPT !.status = status, !.last_activity = TRUE]

\* storage.get_agent(id)
set_agent_status(p, agent_id, status) ==
    /\ CanStart(p)
    /\ nops' = nops + 1
    /\ IF StoreHas(agents, agent_id)
       THEN Go(p, [Begin("set_agent_status", "t_update_agent") EXCEPT
                       !.agent_id = agent_id, !.arg = status,
                       !.agent = agents[agent_id],
                       !.pre = agents[agent_id].status])
       ELSE Ret(p, [Begin("set_agent_status", "t_update_agent") EXCEPT
                              !.agent_id = agent_id, !.pre = "absent"], "NotFound")
    /\ UNCHANGED <<agents, tasks, events, sent, nextAgent, nextTask, faults, os, ext>>

\* the status put on the copy, storage.update_agent(agent), Ok(agent)
set_agent_status_write(p) ==
    /\ h[p].pc = "t_update_agent"
    /\ IF StoreHas(agents, h[p].agent_id)
       THEN /\ agents' = StoreReplace(agents, StatusSetAgent(h[p].agent, h[p].arg))
            /\ Ret(p, h[p], "Ok")
       ELSE /\ Ret(p, h[p], "NotFound")
            /\ UNCHANGED agents
    /\ UNCHANGED <<tasks, events, sent, nextAgent, nextTask, nops, faults, os, ext>>

(* --------------------------- storage failures -------------------------- *)
\* the positions at which a handler's next step is a write to the store
WritePcs ==
    {"d_create_task", "d_update_agent", "d_add_event",
     "e_start", "e_thought", "e_api_call", "e_complete_task", "e_update_agent",
     "e_add_event", "f_update_task", "f_update_agent", "f_add_event",
     "c_update_task", "c_update_agent", "c_add_event",
     "p_update_agent", "p_add_event", "r_update_agent", "r_add_event",
     "s_update_agent", "s_add_event", "u_update_agent", "t_update_agent"}

\* the store call fails (I/O, serialization); `?` returns the error at once
StorageFault(p) ==
    /\ h[p].pc \in WritePcs
    /\ faults < MaxFaults
    /\ faults' = faults + 1
    /\ Ret(p, h[p], "PersistenceFailure")
    /\ UNCHANGED <<agents, tasks, events, sent, nextAgent, nextTask, nops, os, ext>>

(* ------------------------------ scheduling ----------------------------- *)
\* a handler starts
Start(p) ==
    \/ \E a \in AgentIds, ins \in Instructions, pr \in PriorityInputs :
          dispatch(p, a, ins, pr)
    \/ \E t \in TaskIds : simulate_execution(p, t)
    \/ \E t \in TaskIds, m \in ErrorMessages : fail_task(p, t, m)
    \/ \E t \in TaskIds : cancel_task(p, t)
    \/ \E a \in AgentIds : pause_agent(p, a)
    \/ \E a \in AgentIds : resume_agent(p, a)
    \/ \E a \in AgentIds : reset_agent(p, a)
    \/ \E a \in AgentIds, n \in NameInputs : update_agent(p, a, n)

\* a running handler takes its next step
Step(p) ==
    \/ dispatch_create_task(p)
    \/ dispatch_update_agent(p)
    \/ dispatch_add_event(p)
    \/ execute_start(p)
    \/ execute_thought(p)
    \/ execute_api_call(p)
    \/ execute_complete_task(p)
    \/ execute_get_agent(p)
    \/ execute_update_agent(p)
    \/ execute_add_event(p)
    \/ fail_update_task(p)
    \/ fail_get_agent(p)
    \/ fail_update_agent(p)
    \/ fail_add_event(p)
    \/ cancel_update_task(p)
    \/ cancel_get_agent(p)
    \/ cancel_update_agent(p)
    \/ cancel_add_event(p)
    \/ pause_update_agent(p)
    \/ pause_add_event(p)
    \/ resume_update_agent(p)
    \/ resume_add_event(p)
    \/ reset_update_agent(p)
    \/ reset_add_event(p)
    \/ update_agent_write(p)

Next == create_agent \/ \E p \in Procs : Start(p) \/ Step(p)

Spec == Init /\ [][Next]_vars

\* the same handlers over a store whose writes can fail
NextFaults == Next \/ \E p \in Procs : StorageFault(p)

SpecFaults == Init /\ [][NextFaults]_vars

\* the whole IPC surface: the dispatcher's handlers and set_agent_status
NextIpc ==
    \/ Next
    \/ \E p \in Procs :
          \/ \E a \in AgentIds, st \in StatusInputs : set_agent_status(p, a, st)
          \/ set_agent_status_write(p)

SpecIpc == Init /\ [][NextIpc]_vars

(* ------------------- agentos: the in-memory commands -------------------- *)
\* agents that can be created in agentos
OsMaxAgents == 2
\* agentos commands in one behaviour
OsMaxOps == 4

OsAgentIds == 1..OsMaxAgents

\* agent.rs AgentStatus
OsAgentStatus == {"Running", "Error", "Idle", "Paused", "Pending"}

\* Option<String>: None is the empty sequence, Some(x) the sequence of x alone
OsSome(x) == <<x>>
OsNoTask == << >>

\* agent.rs Agent::new
OsAgentNew(id, name) ==
    [id |-> id, name |-> name, status |-> "Idle", current_task |-> OsNoTask,
     last_heartbeat |-> TRUE]

\* agent.rs Activity::new
Activity(agent_id, agent_name, activity_type, content) ==
    [agent_id |-> agent_id, agent_name |-> agent_name,
     activity_type |-> activity_type, content |-> content]

\* agents.iter().find(|a| a.id == agent_id)
OsFound(agent_id) == \E k \in 1..Len(os_agents) : os_agents[k].id = agent_id
OsIndex(agent_id) == CHOOSE k \in 1..Len(os_agents) : os_agents[k].id = agent_id
OsStatusOf(agent_id) ==
    IF OsFound(agent_id) THEN os_agents[OsIndex(agent_id)].status ELSE "absent"

\* one command runs: under the agents mutex a command is one atomic step
OsCommand(cmd, agent_id, success) ==
    /\ os_nops < OsMaxOps
    /\ os_nops' = os_nops + 1
    /\ os_resp' = [cmd |-> cmd, agent_id |-> agent_id, success |-> success,
                   pre |-> OsStatusOf(agent_id)]
    /\ UNCHANGED <<acc, ext>>

\* create_agent: Agent::new, agents.push
os_create_agent(name) ==
    /\ os_next <= OsMaxAgents
    /\ os_agents' = Append(os_agents, OsAgentNew(os_next, name))
    /\ os_next' = os_next + 1
    /\ os_nops < OsMaxOps
    /\ os_nops' = os_nops + 1
    /\ os_resp' = [cmd |-> "create_agent", agent_id |-> os_next, success |-> TRUE,
                   pre |-> "absent"]
    /\ UNCHANGED <<os_activities, acc, ext>>

\* update_agent_status: the status is stored whatever the agent's status is
update_agent_status(cmd, agent_id, status) ==
    /\ IF OsFound(agent_id)
       THEN /\ os_agents' = [os_agents EXCEPT ![OsIndex(agent_id)].status = status,
                                              ![OsIndex(agent_id)].last_heartbeat = TRUE]
            /\ OsCommand(cmd, agent_id, TRUE)
       ELSE /\ UNCHANGED os_agents
            /\ OsCommand(cmd, agent_id, FALSE)
    /\ UNCHANGED <<os_activities, os_next>>

os_update_agent_status(agent_id, status) ==
    update_agent_status("update_agent_status", agent_id, status)

\* pause_agent: update_agent_status(state, agent_id, AgentStatus::Paused)
os_pause_agent(agent_id) == update_agent_status("pause_agent", agent_id, "Paused")

\* resume_agent: update_agent_status(state, agent_id, AgentStatus::Running)
os_resume_agent(agent_id) == update_agent_status("resume_agent", agent_id, "Running")

\* dispatch_task: no admission check; the agent runs the instruction
os_dispatch_task(agent_id, instruction) ==
    /\ IF OsFound(agent_id)
       THEN /\ os_agents' = [os_agents EXCEPT
                                ![OsIndex(agent_id)].current_task = OsSome(instruction),
                                ![OsIndex(agent_id)].status = "Running"]
            /\ os_activities' = Append(os_activities,
                                   Activity(agent_id, os_agents[OsIndex(agent_id)].name,
                                            "UserInput", instruction))
            /\ OsCommand("dispatch_task", agent_id, TRUE)
       ELSE /\ UNCHANGED <<os_agents, os_activities>>
            /\ OsCommand("dispatch_task", agent_id, FALSE)
    /\ UNCHANGED os_next

\* stop_agent: Idle, current_task = None
os_stop_agent(agent_id) ==
    /\ IF OsFound(agent_id)
       THEN /\ os_agents' = [os_agents EXCEPT ![OsIndex(agent_id)].status = "Idle",
                                              ![OsIndex(agent_id)].current_task = OsNoTask]
            /\ OsCommand("stop_agent", agent_id, TRUE)
       ELSE /\ UNCHANGED os_agents
            /\ OsCommand("stop_agent", agent_id, FALSE)
    /\ UNCHANGED <<os_activities, os_next>>

\* agents.retain(|a| a.id != agent_id)
OsRetainAgents(agent_id) == SelectSeq(os_agents, LAMBDA a : a.id # agent_id)

\* delete_agent: success iff the Vec got shorter
os_delete_agent(agent_id) ==
    /\ os_agents' = OsRetainAgents(agent_id)
    /\ OsCommand("delete_agent", agent_id, Len(OsRetainAgents(agent_id)) < Len(os_agents))
    /\ UNCHANGED <<os_activities, os_next>>

\* get_activities: limit.unwrap_or(100)
OsDefaultLimit == 100

\* Option<String> agent ids and Option<usize> limits the front end may send
OsAgentFilters == {OsNoTask} \cup {OsSome(a) : a \in OsAgentIds}
OsLimits == {OsNoTask, OsSome(1)}

\* .filter(|a| agent_id.as_ref().map_or(true, |id| &a.agent_id == id))
OsMatching(agent_id) ==
    SelectSeq(os_activities, LAMBDA a : agent_id = OsNoTask \/ a.agent_id = agent_id[1])

\* .take(n)
OsTake(s, n) == SubSeq(s, 1, IF n < Len(s) THEN n ELSE Len(s))

\* get_activities: the Vec is walked in push order, filtered, then cut
os_get_activities(agent_id, limit) ==
    /\ os_nops < OsMaxOps
    /\ os_nops' = os_nops + 1
    /\ os_resp' = [cmd |-> "get_activities", agent_id |-> agent_id, success |-> TRUE,
                   pre |-> "none", limit |-> limit,
                   data |-> OsTake(OsMatching(agent_id),
                                   IF limit = OsNoTask THEN OsDefaultLimit ELSE limit[1])]
    /\ UNCHANGED <<os_agents, os_activities, os_next, acc, ext>>

\* clear_activities: retain the other agents' activities, or clear them all
os_clear_activities(agent_id) ==
    /\ os_nops < OsMaxOps
    /\ os_nops' = os_nops + 1
    /\ os_activities' = IF agent_id = OsNoTask THEN << >>
                        ELSE SelectSeq(os_activities, LAMBDA a : a.agent_id # agent_id[1])
    /\ os_resp' = [cmd |-> "clear_activities", agent_id |-> agent_id, success |-> TRUE,
                   pre |-> "none"]
    /\ UNCHANGED <<os_agents, os_next, acc, ext>>

NextAgentOS ==
    \/ \E a \in OsAgentFilters, k \in OsLimits : os_get_activities(a, k)
    \/ \E a \in OsAgentFilters : os_clear_activities(a)
    \/ \E n \in NameInputs : os_create_agent(n)
    \/ \E a \in OsAgentIds, st \in OsAgentStatus : os_update_agent_status(a, st)
    \/ \E a \in OsAgentIds : os_pause_agent(a)
    \/ \E a \in OsAgentIds : os_resume_agent(a)
    \/ \E a \in OsAgentIds, ins \in Instructions : os_dispatch_task(a, ins)
    \/ \E a \in OsAgentIds : os_stop_agent(a)
    \/ \E a \in OsAgentIds : os_delete_agent(a)

SpecAgentOS == Init /\ [][NextAgentOS]_vars

(* ======================= properties of the model ======================= *)
\* no handler is in flight
Quiescent == \A p \in Procs : h[p].pc = "idle"

\* the slot a handler starting in this state takes
StartSlot == CHOOSE p \in Procs : h[p].pc = "idle" /\ \A q \in 1..(p - 1) : h[q].pc # "idle"

\* this step is the first step of a handler
Started == nops' = nops + 1

\* the call that starts in this step: the handler's record, or, when its first
\* step already returned, what it left behind
Call == IF h'[StartSlot].pc # "idle" THEN h'[StartSlot] ELSE last'

\* the call that starts in this step returns `res` in this same step
Rejected(res) == h'[StartSlot].pc = "idle" /\ last'.res = res

\* handler p takes a step
Steps(p) == h[p].pc # "idle" /\ h'[p] # h[p]

TerminalStatus == {"Completed", "Failed", "Cancelled"}

\* C1: whenever no Dispatcher operation is in flight, every agent whose
\* current_task_id is set has status Running, and the task it names exists and
\* is owned by that agent.
C1_CurrentTaskOnlyWhileRunning ==
    Quiescent =>
        \A a \in DOMAIN agents :
            agents[a].current_task_id # None =>
                /\ agents[a].status = "Running"
                /\ agents[a].current_task_id \in DOMAIN tasks
                /\ tasks[agents[a].current_task_id].agent_id = a

\* C2: a dispatch to an agent whose stored status is Running returns
\* AgentNotAvailable at once and writes nothing: agents, tasks, events and the
\* broadcast channel are as before.
C2_DispatchToRunningRejected ==
    [][(/\ Started
        /\ Call.op = "dispatch"
        /\ Call.agent_id \in DOMAIN agents
        /\ agents[Call.agent_id].status = "Running")
       => (/\ Rejected("AgentNotAvailable")
           /\ UNCHANGED <<agents, tasks, events, sent, nextTask>>)]_vars

\* C2 witness: a dispatch to a Running agent has returned AgentNotAvailable
C2_Witness ==
    /\ last.op = "dispatch"
    /\ last.pre = "Running"
    /\ last.res = "AgentNotAvailable"

\* C3 as stated: every dispatch with an empty or whitespace-only instruction
\* (here: to an agent that exists) returns InvalidTask and writes nothing.
C3_BlankAlwaysInvalidTask ==
    [][(/\ Started
        /\ Call.op = "dispatch"
        /\ Call.agent_id \in DOMAIN agents
        /\ TrimIsEmpty(Call.instruction))
       => (/\ Rejected("InvalidTask")
           /\ UNCHANGED <<agents, tasks, events, sent, nextTask>>)]_vars

\* C3 amended: a dispatch with an empty or whitespace-only instruction returns
\* an error at once and writes nothing (no task, no agent write, no event); the
\* error is InvalidTask when the agent exists and is not Running, NotFound for
\* a missing agent and AgentNotAvailable for a Running one.
C3_BlankRejectedBeforeCreate ==
    [][(/\ Started
        /\ Call.op = "dispatch"
        /\ TrimIsEmpty(Call.instruction))
       => (/\ Rejected(IF Call.agent_id \notin DOMAIN agents THEN "NotFound"
                       ELSE IF agents[Call.agent_id].status = "Running"
                            THEN "AgentNotAvailable"
                       ELSE "InvalidTask")
           /\ UNCHANGED <<agents, tasks, events, sent, nextTask>>)]_vars

\* C3 witness: a whitespace-only instruction was rejected with InvalidTask
C3_Witness ==
    /\ last.op = "dispatch"
    /\ last.res = "InvalidTask"
    /\ Len(last.instruction) > 0
    /\ \A k \in 1..Len(last.instruction) : last.instruction[k] = " "

\* the events of `kind` logged for task t
EventsOf(t, kind) ==
    {k \in 1..Len(events) : events[k].task_id = t /\ events[k].event_type = kind}

\* the notifications of `kind` sent for task t
SentOf(t, kind) == {k \in 1..Len(sent) : sent[k].task_id = t /\ sent[k].kind = kind}

\* C4: a dispatch with a non-blank instruction to an existing agent that is
\* not Running is admitted with a fresh task id; its steps then store exactly
\* one new Pending task of that agent (priority Medium when the request gave
\* none), store the agent Running with current_task_id the new task, append
\* one TaskStarted event for the task, send one Started notification after it
\* and return Ok.
C4_DispatchAdmitsAndRecords ==
    [][/\ (/\ Started
           /\ Call.op = "dispatch"
           /\ Call.agent_id \in DOMAIN agents
           /\ agents[Call.agent_id].status \in {"Idle", "Paused", "Error"}
           /\ ~TrimIsEmpty(Call.instruction))
          => (/\ h'[StartSlot].pc = "d_create_task"
              /\ h'[StartSlot].task_id \notin DOMAIN tasks
              /\ UNCHANGED <<agents, tasks, events, sent>>)
       /\ \A p \in Procs :
            (Steps(p) /\ h[p].op = "dispatch") =>
                LET t == h[p].task_id
                    a == h[p].agent_id
                IN  /\ h[p].pc = "d_create_task" =>
                          /\ DOMAIN tasks' = DOMAIN tasks \cup {t}
                          /\ t \notin DOMAIN tasks
                          /\ \A u \in DOMAIN tasks : tasks'[u] = tasks[u]
                          /\ tasks'[t].status = "Pending"
                          /\ tasks'[t].agent_id = a
                          /\ tasks'[t].instruction = h[p].instruction
                          /\ tasks'[t].priority =
                                (IF h[p].priority = "None" THEN "Medium" ELSE h[p].priority)
                          /\ UNCHANGED <<agents, events, sent>>
                    /\ h[p].pc = "d_update_agent" =>
                          /\ agents'[a].status = "Running"
                          /\ agents'[a].current_task_id = t
                          /\ agents'[a].last_activity
                          /\ \A b \in DOMAIN agents \ {a} : agents'[b] = agents[b]
                          /\ UNCHANGED <<tasks, events, sent>>
                    /\ h[p].pc = "d_add_event" =>
                          /\ events' = Append(events,
                                [agent_id |-> a, task_id |-> t,
                                 event_type |-> "TaskStarted", idx |-> 0])
                          /\ sent' = Append(sent,
                                [kind |-> "Started", task_id |-> t, idx |-> 0])
                          /\ Cardinality({k \in 1..Len(events') :
                                            /\ events'[k].task_id = t
                                            /\ events'[k].event_type = "TaskStarted"}) = 1
                          /\ Cardinality({k \in 1..Len(sent') :
                                            /\ sent'[k].task_id = t
                                            /\ sent'[k].kind = "Started"}) = 1
                          /\ h'[p].pc = "idle"
                          /\ last'.res = "Ok"
                          /\ UNCHANGED <<agents, tasks>>]_vars

\* C4 witness: a dispatch to a Paused agent that gave no priority has returned Ok;
\* the task is Pending with priority Medium and the agent is Running on it
C4_Witness ==
    /\ last.op = "dispatch"
    /\ last.res = "Ok"
    /\ last.pre = "Paused"
    /\ last.task_id \in DOMAIN tasks
    /\ tasks[last.task_id].status = "Pending"
    /\ tasks[last.task_id].priority = "Medium"
    /\ agents[last.agent_id].status = "Running"
    /\ agents[last.agent_id].current_task_id = last.task_id
    /\ Cardinality(EventsOf(last.task_id, "TaskStarted")) = 1

\* handler p returns in this step
Returns(p) == h[p].pc # "idle" /\ h'[p].pc = "idle"

\* C5: when an execute call on a task that it found Pending or Running
\* returns (here: with no other handler in flight), the task is stored
\* Completed or Failed with completed_at set, and the owning agent is Idle
\* (execute returned Ok) or Error (execute returned an error) with
\* current_task_id cleared.
C5_ExecuteEndsCompletedOrFailed ==
    [][\A p \in Procs :
          (/\ Returns(p)
           /\ h[p].op = "execute"
           /\ h[p].pre \in {"Pending", "Running"}
           /\ \A q \in Procs \ {p} : h[q].pc = "idle")
          => LET t == h[p].task_id
                 a == h[p].agent_id
             IN  /\ t \in DOMAIN tasks'
                 /\ tasks'[t].status \in {"Completed", "Failed"}
                 /\ tasks'[t].completed_at
                 /\ a \in DOMAIN agents'
                 /\ agents'[a].current_task_id = None
                 /\ agents'[a].status = (IF last'.res = "Ok" THEN "Idle" ELSE "Error")]_vars

\* C6: an execute, fail or cancel that found its task Completed, Failed or
\* Cancelled never changes the stored status of that task.
C6_TerminalStatusIsFinal ==
    [][\A p \in Procs :
          (/\ Steps(p)
           /\ h[p].op \in {"execute", "fail", "cancel"}
           /\ h[p].pre \in TerminalStatus
           /\ h[p].task_id \in DOMAIN tasks
           /\ tasks[h[p].task_id].status \in TerminalStatus)
          => tasks'[h[p].task_id].status = tasks[h[p].task_id].status]_vars

\* C7: a cancel of a task stored Completed, Failed or Cancelled returns
\* InvalidTask (the dispatcher's invalid-input error) at once and writes
\* nothing: tasks, agents, events and the broadcast channel are as before.
C7_CancelTerminalRejected ==
    [][(/\ Started
        /\ Call.op = "cancel"
        /\ Call.task_id \in DOMAIN tasks
        /\ tasks[Call.task_id].status \in TerminalStatus)
       => (/\ Rejected("InvalidTask")
           /\ UNCHANGED <<agents, tasks, events, sent>>)]_vars

\* C7 witness: a cancel of a terminal task has returned InvalidTask
C7_Witness ==
    /\ last.op = "cancel"
    /\ last.res = "InvalidTask"
    /\ last.pre \in TerminalStatus
    /\ last.task_id \in DOMAIN tasks
    /\ tasks[last.task_id].status = last.pre

\* C8: while an execute that found task T Pending or Running is in flight and
\* cancel(T) was the last call to return, with Ok, no step of that execute
\* changes the stored status of T away from Cancelled.
C8_CancelledSurvivesExecute ==
    [][\A p \in Procs :
          (/\ Steps(p)
           /\ h[p].op = "execute"
           /\ h[p].pre \in {"Pending", "Running"}
           /\ last.op = "cancel"
           /\ last.res = "Ok"
           /\ last.task_id = h[p].task_id
           /\ h[p].task_id \in DOMAIN tasks
           /\ tasks[h[p].task_id].status = "Cancelled")
          => tasks'[h[p].task_id].status = "Cancelled"]_vars

\* C9: an in-flight execute(T) appends a thought or API-call event for T only
\* while T is stored Running, and writes the agent's counters only while T is
\* stored Completed by it or Running.
C9_ExecuteStopsWhenNotRunning ==
    [][\A p \in Procs :
          (/\ Steps(p)
           /\ h[p].op = "execute"
           /\ h[p].pc \in {"e_thought", "e_api_call"}
           /\ events' # events)
          => (/\ h[p].task_id \in DOMAIN tasks
              /\ tasks[h[p].task_id].status = "Running")]_vars

\* the record the agent write at position pc stores, were it applied to `agent`
AgentWrite(hp, agent) ==
    CASE hp.pc = "d_update_agent" -> DispatchedAgent(agent, hp.task_id)
      [] hp.pc = "e_update_agent" -> CompletedAgent(agent)
      [] hp.pc = "f_update_agent" -> FailedAgent(agent)
      [] hp.pc = "c_update_agent" -> CancelledAgent(agent)
      [] hp.pc = "p_update_agent" -> PausedAgent(agent)
      [] hp.pc = "r_update_agent" -> ResumedAgent(agent)
      [] hp.pc = "s_update_agent" -> ResetAgent(agent)
      [] hp.pc = "u_update_agent" -> RenamedAgent(agent, hp.arg)
      [] OTHER -> agent

\* C10: every write of an agent record stores the operation's change applied
\* to the record as it is stored at that moment: no field another operation
\* wrote since the handler read its copy is put back to its old value.
C10_NoLostAgentUpdate ==
    [][\A p \in Procs :
          (Steps(p) /\ agents' # agents)
          => agents'[h[p].agent_id] = AgentWrite(h[p], agents[h[p].agent_id])]_vars

\* the events the pipeline logs for a task, and their place in the pipeline
PipelineEventTypes == {"TaskStarted", "ThoughtLog", "ApiCall", "TaskCompleted"}

PipelineSentKinds == {"Started", "ThoughtLog", "ApiCall", "Completed"}

PipelineRank(kind, idx) ==
    CASE kind \in {"TaskStarted", "Started"} -> 0
      [] kind = "ThoughtLog" -> idx
      [] kind = "ApiCall" -> NumThoughts + 1
      [] OTHER -> NumThoughts + 2

\* the pipeline events logged for task t, oldest first
TaskLog(t) ==
    SelectSeq(events, LAMBDA e : e.task_id = t /\ e.event_type \in PipelineEventTypes)

\* the pipeline notifications sent for task t, in the order of the sends
TaskSent(t) ==
    SelectSeq(sent, LAMBDA e : e.task_id = t /\ e.kind \in PipelineSentKinds)

\* C11: for every task, the logged events and the sent notifications are in
\* the pipeline's order: task-started, the thoughts by index, the API call,
\* the completion; none comes after a later one, none twice.
C11_PipelineOrderPerTask ==
    \A t \in DOMAIN tasks :
        /\ \A k \in 1..(Len(TaskLog(t)) - 1) :
              PipelineRank(TaskLog(t)[k].event_type, TaskLog(t)[k].idx)
                < PipelineRank(TaskLog(t)[k + 1].event_type, TaskLog(t)[k + 1].idx)
        /\ \A k \in 1..(Len(TaskSent(t)) - 1) :
              PipelineRank(TaskSent(t)[k].kind, TaskSent(t)[k].idx)
                < PipelineRank(TaskSent(t)[k + 1].kind, TaskSent(t)[k + 1].idx)

\* C12: a dispatch that returns an error leaves the store as it was before the
\* call: the task it made is not stored, the agent is not assigned to it and
\* no task-started event names it.
C12_FailedDispatchLeavesNoTrace ==
    [][\A p \in Procs :
          (/\ Returns(p)
           /\ h[p].op = "dispatch"
           /\ last'.res # "Ok")
          => (/\ h[p].task_id \notin DOMAIN tasks'
              /\ \A a \in DOMAIN agents' : agents'[a].current_task_id # h[p].task_id
              /\ \A k \in 1..Len(events') : events'[k].task_id # h[p].task_id)]_vars

\* C13: a cancel of a Pending or Running task is admitted; it stores the task
\* Cancelled with completed_at set, then resets the owning agent to Idle with
\* current_task_id cleared exactly when the stored agent's current_task_id is
\* the cancelled task and otherwise writes no agent record, then appends one
\* info event and returns Ok.
C13_CancelEffects ==
    [][/\ (/\ Started
           /\ Call.op = "cancel"
           /\ Call.task_id \in DOMAIN tasks
           /\ tasks[Call.task_id].status \in {"Pending", "Running"})
          => (/\ h'[StartSlot].pc = "c_update_task"
              /\ UNCHANGED <<agents, tasks, events, sent>>)
       /\ \A p \in Procs :
            (Steps(p) /\ h[p].op = "cancel") =>
                LET t == h[p].task_id
                    a == h[p].agent_id
                IN  /\ h[p].pc = "c_update_task" =>
                          /\ tasks'[t].status = "Cancelled"
                          /\ tasks'[t].completed_at
                          /\ \A u \in DOMAIN tasks \ {t} : tasks'[u] = tasks[u]
                          /\ UNCHANGED <<agents, events, sent>>
                    /\ h[p].pc = "c_get_agent" =>
                          /\ h'[p].pc = (IF agents[a].current_task_id = t
                                         THEN "c_update_agent" ELSE "c_add_event")
                          /\ UNCHANGED <<agents, tasks, events, sent>>
                    /\ h[p].pc = "c_update_agent" =>
                          /\ agents'[a].status = "Idle"
                          /\ agents'[a].current_task_id = None
                          /\ \A b \in DOMAIN agents \ {a} : agents'[b] = agents[b]
                          /\ UNCHANGED <<tasks, events, sent>>
                    /\ h[p].pc = "c_add_event" =>
                          /\ events' = Append(events,
                                [agent_id |-> a, task_id |-> t,
                                 event_type |-> "Info", idx |-> 0])
                          /\ h'[p].pc = "idle"
                          /\ last'.res = "Ok"
                          /\ UNCHANGED <<agents, tasks, sent>>]_vars

\* C13 witness: a cancel has returned Ok for a task that is stored Cancelled
\* with completed_at set, and the owning agent, which was not running that
\* task, is still Paused
C13_Witness ==
    /\ last.op = "cancel"
    /\ last.res = "Ok"
    /\ tasks[last.task_id].status = "Cancelled"
    /\ tasks[last.task_id].completed_at
    /\ agents[last.agent_id].status = "Paused"
    /\ agents[last.agent_id].current_task_id = None
    /\ events[Len(events)].event_type = "Info"
    /\ events[Len(events)].task_id = last.task_id

\* C14: a pause of an agent that is stored Paused (the second of two pauses in
\* a row) returns Ok at once and changes nothing: no agent write, no event.
C14_PauseIdempotent ==
    [][(/\ Started
        /\ Call.op = "pause"
        /\ Call.agent_id \in DOMAIN agents
        /\ agents[Call.agent_id].status = "Paused")
       => (/\ Rejected("Ok")
           /\ UNCHANGED <<agents, tasks, events, sent>>)]_vars

\* C14 witness: a pause of a Paused agent has returned Ok and the agent is
\* still Paused
C14_Witness ==
    /\ last.op = "pause"
    /\ last.pre = "Paused"
    /\ last.res = "Ok"
    /\ agents[last.agent_id].status = "Paused"

\* C15: a resume of an agent that is not Paused fails and changes nothing; a
\* resume of a Paused agent leaves it Idle (agentos command surface).
C15_ResumeOnlyFromPaused ==
    [][(/\ os_nops' = os_nops + 1
        /\ os_resp'.cmd = "resume_agent"
        /\ OsFound(os_resp'.agent_id))
       => IF OsStatusOf(os_resp'.agent_id) # "Paused"
          THEN ~os_resp'.success /\ os_agents' = os_agents
          ELSE os_agents'[OsIndex(os_resp'.agent_id)].status = "Idle"]_vars

\* C16: a reset of an existing agent is admitted whatever the agent's status
\* is; its write stores the agent Idle with current_task_id cleared and it
\* then returns Ok.
C16_ResetAlwaysIdle ==
    [][/\ (/\ Started
           /\ Call.op = "reset"
           /\ Call.agent_id \in DOMAIN agents)
          => (/\ h'[StartSlot].pc = "s_update_agent"
              /\ UNCHANGED <<agents, tasks, events, sent>>)
       /\ \A p \in Procs :
            (Steps(p) /\ h[p].op = "reset") =>
                LET a == h[p].agent_id
                IN  /\ h[p].pc = "s_update_agent" =>
                          /\ agents'[a].status = "Idle"
                          /\ agents'[a].current_task_id = None
                          /\ \A b \in DOMAIN agents \ {a} : agents'[b] = agents[b]
                          /\ UNCHANGED <<tasks, events, sent>>
                    /\ h[p].pc = "s_add_event" =>
                          /\ h'[p].pc = "idle"
                          /\ last'.res = "Ok"
                          /\ UNCHANGED <<agents, tasks, sent>>]_vars

\* C16 witness: a reset of an agent that was running a task has returned Ok
\* and the agent is Idle with no current task
C16_Witness ==
    /\ last.op = "reset"
    /\ last.res = "Ok"
    /\ last.pre = "Running"
    /\ agents[last.agent_id].status = "Idle"
    /\ agents[last.agent_id].current_task_id = None
    /\ \E t \in DOMAIN tasks : tasks[t].agent_id = last.agent_id

\* C17: fail(T, msg) stores T Failed with completed_at set and error msg, then
\* stores the owning agent in status Error with current_task_id cleared, then
\* appends one task-failed event for T, sends one Failed notification for T
\* and returns Ok.
C17_FailEffects ==
    [][\A p \in Procs :
          (Steps(p) /\ h[p].op = "fail") =>
              LET t == h[p].task_id
                  a == h[p].agent_id
              IN  /\ h[p].pc = "f_update_task" =>
                        /\ tasks'[t].status = "Failed"
                        /\ tasks'[t].completed_at
                        /\ tasks'[t].error = h[p].arg
                        /\ \A u \in DOMAIN tasks \ {t} : tasks'[u] = tasks[u]
                        /\ UNCHANGED <<agents, events, sent>>
                  /\ h[p].pc = "f_get_agent" =>
                        /\ h'[p].pc = "f_update_agent"
                        /\ UNCHANGED <<agents, tasks, events, sent>>
                  /\ h[p].pc = "f_update_agent" =>
                        /\ agents'[a].status = "Error"
                        /\ agents'[a].current_task_id = None
                        /\ \A b \in DOMAIN agents \ {a} : agents'[b] = agents[b]
                        /\ UNCHANGED <<tasks, events, sent>>
                  /\ h[p].pc = "f_add_event" =>
                        /\ events' = Append(events,
                              [agent_id |-> a, task_id |-> t,
                               event_type |-> "TaskFailed", idx |-> 0])
                        /\ sent' = Append(sent,
                              [kind |-> "Failed", task_id |-> t, idx |-> 0])
                        /\ h'[p].pc = "idle"
                        /\ last'.res = "Ok"
                        /\ UNCHANGED <<agents, tasks>>]_vars

\* C17 witness: fail_task has returned Ok; the task is Failed with its error
\* and completed_at, the agent is in Error with no current task, and the last
\* event and the last notification are the failure of that task
C17_Witness ==
    /\ last.op = "fail"
    /\ last.res = "Ok"
    /\ tasks[last.task_id].status = "Failed"
    /\ tasks[last.task_id].completed_at
    /\ tasks[last.task_id].error = "boom"
    /\ agents[last.agent_id].status = "Error"
    /\ agents[last.agent_id].current_task_id = None
    /\ events[Len(events)] = [agent_id |-> last.agent_id, task_id |-> last.task_id,
                              event_type |-> "TaskFailed", idx |-> 0]
    /\ sent[Len(sent)] = [kind |-> "Failed", task_id |-> last.task_id, idx |-> 0]

\* C18: the stored status of an agent becomes Running only in a step of a
\* dispatch to that agent.
C18_RunningOnlyByDispatch ==
    [][\A a \in DOMAIN agents :
          (agents[a].status # "Running" /\ agents'[a].status = "Running")
          => \E p \in Procs :
                /\ Steps(p)
                /\ h[p].op = "dispatch"
                /\ h[p].agent_id = a]_vars

\* C19: a stored task has completed_at set if and only if its status is
\* Completed, Failed or Cancelled.
C19_CompletedAtIffTerminal ==
    \A t \in DOMAIN tasks :
        tasks[t].completed_at <=> tasks[t].status \in TerminalStatus

\* C20: a stored task has a result only if its status is Completed, and an
\* error only if its status is Failed.
C20_ResultAndErrorMatchStatus ==
    \A t \in DOMAIN tasks :
        /\ tasks[t].result # NoResult => tasks[t].status = "Completed"
        /\ tasks[t].error # "" => tasks[t].status = "Failed"

\* C21: every stored task whose status is not Pending has started_at set.
C21_StartedAtOnceNotPending ==
    \A t \in DOMAIN tasks :
        tasks[t].status # "Pending" => tasks[t].started_at

\* the edges of the task state machine
TaskEdges ==
    { <<"Pending", "Running">>, <<"Running", "Completed">>, <<"Running", "Failed">>,
      <<"Pending", "Cancelled">>, <<"Running", "Cancelled">> }

\* C29: whenever the stored status of a task changes, the change is one of
\* Pending->Running, Running->Completed, Running->Failed, Pending->Cancelled,
\* Running->Cancelled.
C29_TaskStatusEdges ==
    [][\A t \in DOMAIN tasks :
          tasks'[t].status # tasks[t].status
          => <<tasks[t].status, tasks'[t].status>> \in TaskEdges]_vars

\* C30: the step in which an execute writes the agent after completing adds
\* exactly 1 to the stored tasks_completed, 1 to total_api_calls and 5 to
\* estimated_cost_cents of the owning agent, and no other step changes the
\* stored tasks_completed of any agent.
C30_CompletionCounters ==
    [][\A a \in DOMAIN agents :
          IF \E p \in Procs : /\ Steps(p)
                              /\ h[p].pc = "e_update_agent"
                              /\ h[p].agent_id = a
          THEN /\ agents'[a].tasks_completed = agents[a].tasks_completed + 1
               /\ agents'[a].total_api_calls = agents[a].total_api_calls + 1
               /\ agents'[a].estimated_cost_cents = agents[a].estimated_cost_cents + 5
          ELSE agents'[a].tasks_completed = agents[a].tasks_completed]_vars

(* ------------------- event retention (Storage::add_event) --------------- *)
\* events inserted in one behaviour of SpecEvents
MaxInserts == 1001

\* how many events have been inserted: the inserts are numbered from 1
Inserted == IF events = << >> THEN 0 ELSE events[Len(events)].idx

\* one call of storage.add_event, as made by every turn of the thought loop
add_event ==
    /\ Inserted < MaxInserts
    /\ events' = StoreAddEvent(events, ActivityEvent(1, 1, "ThoughtLog", Inserted + 1))
    /\ UNCHANGED <<agents, tasks, sent, h, last, nextAgent, nextTask, nops, faults,
                   os, ext>>

SpecEvents == Init /\ [][add_event]_vars

\* C22: the number of stored events never exceeds 1000, and the store holds
\* the most recently inserted events in insertion order: after n inserts it
\* holds inserts max(1, n - 999) .. n, so the insert into a full store evicts
\* exactly the oldest event.
C22_EventCapEvictsOldest ==
    /\ Len(events) <= 1000
    /\ Len(events) = IF Inserted <= 1000 THEN Inserted ELSE 1000
    /\ \A k \in 1..Len(events) : events[k].idx = Inserted - Len(events) + k

\* 1001 events were inserted: the store is full and the first insert is gone
C22_Witness ==
    /\ Inserted = 1001
    /\ Len(events) = 1000
    /\ events[1].idx = 2

\* a sequence back to front
Reverse(s) == [k \in 1..Len(s) |-> s[Len(s) + 1 - k]]

\* C26: a listing of activities returns the matching activities newest first
\* (the Vec holds them oldest first, in push order), and a limit k returns
\* the k newest matching ones: the cut is made after the sort.
C26_ListingNewestFirst ==
    os_resp.cmd = "get_activities"
    => os_resp.data = OsTake(Reverse(OsMatching(os_resp.agent_id)),
                             IF os_resp.limit = OsNoTask THEN 100 ELSE os_resp.limit[1])

(* ------------------ the broadcast channel's receivers ------------------- *)
\* receivers subscribed at a time
MaxReceivers == 1

\* broadcast::channel(100): the channel keeps the last 100 values sent
ChannelCapacity == 100

\* TaskDispatcher::subscribe: a new receiver sees the values sent from now on;
\* rx[k] is how many of the values in `sent` receiver k is past
subscribe ==
    /\ Len(rx) < MaxReceivers
    /\ nops < MaxOps
    /\ nops' = nops + 1
    /\ rx' = Append(rx, Len(sent))
    /\ UNCHANGED <<agents, tasks, events, sent, h, last, nextAgent, nextTask, faults,
                   os, blob, snap, storage, database, mock, lk>>

\* Receiver::recv: the next value, or Lagged when the receiver fell more than
\* the capacity behind, and then it skips to the oldest value still kept
recv(k) ==
    /\ k \in 1..Len(rx)
    /\ rx[k] < Len(sent)
    /\ rx' = [rx EXCEPT ![k] = IF Len(sent) - rx[k] > ChannelCapacity
                               THEN Len(sent) - ChannelCapacity
                               ELSE rx[k] + 1]
    /\ UNCHANGED <<acc, os, blob, snap, storage, database, mock, lk>>

NextChannel ==
    \/ Next
    \/ subscribe
    \/ \E k \in 1..MaxReceivers : recv(k)

SpecChannel == Init /\ [][NextChannel]_vars

\* the handler steps that send on the channel
SendPcs == {"d_add_event", "e_thought", "e_api_call", "e_add_event", "f_add_event"}

RECURSIVE SplitFrom(_, _, _)
SplitFrom(s, k, word) ==
    IF k > Len(s) THEN (IF word = << >> THEN << >> ELSE <<word>>)
    ELSE IF IsWhitespace(s[k])
         THEN (IF word = << >> THEN << >> ELSE <<word>>) \o SplitFrom(s, k + 1, << >>)
         ELSE SplitFrom(s, k + 1, Append(word, s[k]))

split_whitespace(s) == SplitFrom(s, 1, << >>)

\* parts[1..].join(" ")
RECURSIVE JoinSpace(_)
JoinSpace(parts) ==
    IF parts = << >> THEN << >>
    ELSE IF Len(parts) = 1 THEN parts[1]
    ELSE parts[1] \o <<" ">> \o JoinSpace(Tail(parts))

\* the verbs execute_quick_command matches on
Verb ==
    [status |-> <<"s","t","a","t","u","s">>, list |-> <<"l","i","s","t">>,
     pause |-> <<"p","a","u","s","e">>, resume |-> <<"r","e","s","u","m","e">>,
     reset |-> <<"r","e","s","e","t">>, run |-> <<"r","u","n">>,
     dispatch |-> <<"d","i","s","p","a","t","c","h">>, help |-> <<"h","e","l","p">>]

\* the command texts the front end may send
QuickCommands ==
    { << >>, <<" ">>, <<"P","a","u","s","e">>, Verb.resume, Verb.reset, Verb.run,
      <<"r","u","n"," ","f","i","x">>, Verb.status, Verb.help, <<"g","o">> }

\* request.agent_id: Option<String>; the text of a uuid is the text of the id
QuickAgentIds == {<< >>, <<"1">>, <<"2">>, <<"no-uuid">>}

\* Uuid::parse_str(s) succeeds
IsUuid(s) == \E a \in AgentIds : ToString(a) = s

\* parse_uuid: the id, for a well-formed text
parse_uuid(s) == CHOOSE a \in AgentIds : ToString(a) = s

\* command.to_lowercase().split_whitespace().collect(), for each command text
QuickParts == [c \in QuickCommands |-> split_whitespace(ToLowercase(c))]

\* the command answers at once with `res`: "Unsuccessful" is
\* Ok(QuickCommandResponse { success: false, .. }), "Ok" a response with
\* success: true, anything else the Err(IpcError) of that code
QuickAnswer(p, command, agent_id, res) ==
    /\ CanStart(p)
    /\ nops' = nops + 1
    /\ h' = h
    /\ last' = [op |-> "quick_command", res |-> res, pre |-> "none", agent_id |-> None,
                task_id |-> None, instruction |-> command, selected |-> agent_id]
    /\ UNCHANGED <<agents, tasks, events, sent, nextAgent, nextTask, faults, os, ext>>

\* execute_quick_command: the match on parts[0]. The dispatcher's answer to a
\* delegated call is handed on: its Err by `?`, its Ok as success: true.
execute_quick_command(p, command, agent_id) ==
    LET parts == QuickParts[command]
        verb  == parts[1]
    IN  IF parts = << >> THEN QuickAnswer(p, command, agent_id, "Unsuccessful")
        ELSE IF verb \in {Verb.status, Verb.list, Verb.help}
             THEN QuickAnswer(p, command, agent_id, "Ok")
        ELSE IF verb \in {Verb.run, Verb.dispatch} /\ Len(parts) < 2
             THEN QuickAnswer(p, command, agent_id, "Unsuccessful")
        ELSE IF verb \in {Verb.pause, Verb.resume, Verb.reset, Verb.run, Verb.dispatch}
             THEN IF agent_id = << >>
                  THEN QuickAnswer(p, command, agent_id, "Unsuccessful")
                  ELSE IF ~IsUuid(agent_id[1])
                  THEN QuickAnswer(p, command, agent_id, "INVALID_UUID")
                  ELSE IF verb = Verb.pause THEN pause_agent(p, parse_uuid(agent_id[1]))
                  ELSE IF verb = Verb.resume THEN resume_agent(p, parse_uuid(agent_id[1]))
                  ELSE IF verb = Verb.reset THEN reset_agent(p, parse_uuid(agent_id[1]))
                  ELSE dispatch(p, parse_uuid(agent_id[1]), JoinSpace(Tail(parts)), "None")
        ELSE QuickAnswer(p, command, agent_id, "Unsuccessful")

\* the steps of the handlers a quick command can start
QuickStep(p) ==
    \/ dispatch_create_task(p)
    \/ dispatch_update_agent(p)
    \/ dispatch_add_event(p)
    \/ pause_update_agent(p)
    \/ pause_add_event(p)
    \/ resume_update_agent(p)
    \/ resume_add_event(p)
    \/ reset_update_agent(p)
    \/ reset_add_event(p)

NextQuick ==
    \/ create_agent
    \/ \E p \in Procs, c \in QuickCommands, a \in QuickAgentIds :
          execute_quick_command(p, c, a)
    \/ \E p \in Procs : QuickStep(p)

SpecQuick == Init /\ [][NextQuick]_vars

\* the free-text input is unusable: empty command, unknown verb, run without
\* an instruction, a verb that needs an agent with none selected or with a
\* malformed agent id
Unusable(command, selected) ==
    LET words == QuickParts[command]
    IN  \/ words = << >>
        \/ words[1] \notin {Verb.status, Verb.list, Verb.pause, Verb.resume, Verb.reset,
                            Verb.run, Verb.dispatch, Verb.help}
        \/ words[1] \in {Verb.run, Verb.dispatch} /\ Len(words) < 2
        \/ /\ words[1] \in {Verb.pause, Verb.resume, Verb.reset, Verb.run, Verb.dispatch}
           /\ \/ selected = << >>
              \/ \A a \in AgentIds : ToString(a) # selected[1]

\* C28: a quick command whose input is unusable answers with a structured
\* response with success = false, not with an error, and leaves the agents,
\* tasks and events of the store as they were.
C28_UnusableQuickCommandDegrades ==
    [][(/\ nops' = nops + 1
        /\ h' = h
        /\ last'.op = "quick_command"
        /\ Unusable(last'.instruction, last'.selected))
       => /\ last'.res = "Unsuccessful"
          /\ UNCHANGED <<agents, tasks, events>>]_vars

(* -------------- ipc.rs: export_data / import_data / reset --------------- *)
\* the values of a map as a sequence, by ascending id
MapValues(m) == [k \in 1..Cardinality(DOMAIN m) |->
                    m[CHOOSE id \in DOMAIN m :
                         Cardinality({j \in DOMAIN m : j < id}) = k - 1]]

\* Storage::export_data: one document holding the agents, the tasks and the
\* event list
ExportJson(ag, ta, ev) == <<"doc", MapValues(ag), MapValues(ta), ev>>

\* a text that is no such document
MalformedJson == <<"{">>

\* the document parses
ParsesJson(json) == Len(json) = 4 /\ json[1] = "doc"

\* the map the records of a document make, keyed by id
MapOf(records) ==
    [id \in {records[k].id : k \in 1..Len(records)} |->
        records[CHOOSE k \in 1..Len(records) : records[k].id = id]]

\* what export_data, import_data and reset_storage leave in `last`
BackupReturned(op, res, json) ==
    [op |-> op, res |-> res, json |-> json,
     pre |-> IF agents = << >> /\ tasks = << >> /\ events = << >>
             THEN "empty" ELSE "nonempty",
     agent_id |-> None, task_id |-> None, instruction |-> << >>]

\* mutant: export_data answers with an empty text
export_data_ReturnsNothing ==
    /\ blob' = << << >> >>
    /\ snap' = << [agents |-> agents, tasks |-> tasks, events |-> events] >>
    /\ last' = BackupReturned("export_data", "Ok", << >>)
    /\ UNCHANGED <<agents, tasks, events, sent, h, nextAgent, nextTask, nops, faults,
                   os, rx, storage, database, mock, lk>>

\* export_data: storage.export_data(), Ok(data)
export_data ==
    /\ blob' = << ExportJson(agents, tasks, events) >>
    /\ snap' = << [agents |-> agents, tasks |-> tasks, events |-> events] >>
    /\ last' = BackupReturned("export_data", "Ok", << >>)
    /\ UNCHANGED <<agents, tasks, events, sent, h, nextAgent, nextTask, nops, faults,
                   os, rx, storage, database, mock, lk>>

\* reset_storage: storage.reset() clears the whole state
reset_storage ==
    /\ agents' = << >>
    /\ tasks' = << >>
    /\ events' = << >>
    /\ last' = BackupReturned("reset_storage", "Ok", << >>)
    /\ UNCHANGED <<sent, h, nextAgent, nextTask, nops, faults, os, ext>>

\* the texts import_data is called with: the exported one, or a malformed one
ImportInputs == {"exported", "malformed"}

\* import_data: storage.import_data(&json) replaces the whole state, or fails
\* with a serialization error and changes nothing
import_data(input) ==
    LET json == IF input = "exported" THEN blob[1] ELSE MalformedJson
    IN  /\ input = "exported" => blob # << >>
        /\ IF ParsesJson(json)
           THEN /\ agents' = MapOf(json[2])
                /\ tasks' = MapOf(json[3])
                /\ events' = json[4]
                /\ last' = BackupReturned("import_data", "Ok", json)
           ELSE /\ UNCHANGED <<agents, tasks, events>>
                /\ last' = BackupReturned("import_data", "SerializationError", json)
        /\ UNCHANGED <<sent, h, nextAgent, nextTask, nops, faults, os, ext>>

NextBackup ==
    \/ create_agent
    \/ \E p \in Procs, a \in AgentIds, ins \in Instructions, pr \in PriorityInputs :
          dispatch(p, a, ins, pr)
    \/ \E p \in Procs : \/ dispatch_create_task(p)
                        \/ dispatch_update_agent(p)
                        \/ dispatch_add_event(p)
    \/ export_data
    \/ reset_storage
    \/ \E input \in ImportInputs : import_data(input)

SpecBackup == Init /\ [][NextBackup]_vars

MaxSqlAgents == 2
\* calls on the two sqlite variants in one behaviour
MaxSqlOps == 4

SqlAgentIds == 1..MaxSqlAgents

\* list_events: limit.unwrap_or(100)
StorageDefaultLimit == 100
\* commands.rs get_activities: limit.unwrap_or(50)
DatabaseDefaultLimit == 50

\* Option<i32> limits
SqlLimits == {OsNoTask, OsSome(1)}

\* both variants declare FOREIGN KEY (agent_id) REFERENCES agents(id) and set
\* no PRAGMA foreign_keys: whether sqlite enforces them is decided by the build
InitSql ==
    /\ InitStore
    /\ rx = << >>
    /\ blob = << >>
    /\ snap = << >>
    /\ \E fk \in BOOLEAN : storage = EmptyTables(fk)
    /\ \E fk \in BOOLEAN : database = EmptyDatabase(fk)
    /\ mock = NoCall
    /\ lk = NoLocks

SqlCanRun == storage.nops + database.nops < MaxSqlOps

\* the answer of a call
SqlResp(cmd, agent_id, res, data) ==
    [cmd |-> cmd, agent_id |-> agent_id, res |-> res, data |-> data]

\* the rows of `rows` that do not belong to agent id
NotOf(rows, id) == {r \in rows : r.agent_id # id}

\* ORDER BY timestamp DESC LIMIT n over rows kept in insertion order
NewestFirst(rows, n) ==
    LET sorted == [k \in 1..Len(rows) |-> rows[Len(rows) + 1 - k]]
    IN  SubSeq(sorted, 1, IF n < Len(rows) THEN n ELSE Len(rows))

\* Storage::create_agent: INSERT INTO agents; the id is the primary key
storage_create_agent(id) ==
    /\ SqlCanRun
    /\ storage' = IF id \in storage.agents
                  THEN [storage EXCEPT !.nops = @ + 1,
                           !.resp = SqlResp("create_agent", id, "Database", << >>)]
                  ELSE [storage EXCEPT !.nops = @ + 1, !.agents = @ \cup {id},
                           !.resp = SqlResp("create_agent", id, "Ok", << >>)]
    /\ UNCHANGED <<acc, os, rx, blob, snap, database, mock, lk>>

\* Storage::create_task: a plain INSERT INTO tasks
storage_create_task(agent_id) ==
    /\ SqlCanRun
    /\ storage' = IF storage.fk /\ agent_id \notin storage.agents
                  THEN [storage EXCEPT !.nops = @ + 1,
                           !.resp = SqlResp("create_task", agent_id, "Database", << >>)]
                  ELSE [storage EXCEPT !.nops = @ + 1, !.next = @ + 1,
                           !.tasks = @ \cup {[id |-> storage.next, agent_id |-> agent_id]},
                           !.resp = SqlResp("create_task", agent_id, "Ok", << >>)]
    /\ UNCHANGED <<acc, os, rx, blob, snap, database, mock, lk>>

\* Storage::create_event: a plain INSERT INTO events
storage_create_event(agent_id) ==
    /\ SqlCanRun
    /\ storage' = IF storage.fk /\ agent_id \notin storage.agents
                  THEN [storage EXCEPT !.nops = @ + 1,
                           !.resp = SqlResp("create_event", agent_id, "Database", << >>)]
                  ELSE [storage EXCEPT !.nops = @ + 1, !.next = @ + 1,
                           !.events = Append(@, [id |-> storage.next,
                                                 agent_id |-> agent_id]),
                           !.resp = SqlResp("create_event", agent_id, "Ok", << >>)]
    /\ UNCHANGED <<acc, os, rx, blob, snap, database, mock, lk>>

\* Storage::delete_agent: DELETE FROM events, DELETE FROM tasks, DELETE FROM
\* agents; AgentNotFound when the last statement deleted no row
storage_delete_agent(id) ==
    /\ SqlCanRun
    /\ storage' = [storage EXCEPT
                      !.nops = @ + 1,
                      !.events = SelectSeq(@, LAMBDA e : e.agent_id # id),
                      !.tasks = NotOf(@, id),
                      !.agents = @ \ {id},
                      !.resp = SqlResp("delete_agent", id,
                                       IF id \in storage.agents THEN "Ok"
                                       ELSE "AgentNotFound", << >>)]
    /\ UNCHANGED <<acc, os, rx, blob, snap, database, mock, lk>>

\* Storage::list_events: SELECT .. ORDER BY timestamp DESC LIMIT ?1
storage_list_events(limit) ==
    /\ SqlCanRun
    /\ storage' = [storage EXCEPT
                      !.nops = @ + 1,
                      !.resp = SqlResp("list_events", None, "Ok",
                                  NewestFirst(storage.events,
                                      IF limit = OsNoTask THEN StorageDefaultLimit
                                      ELSE limit[1]))]
    /\ UNCHANGED <<acc, os, rx, blob, snap, database, mock, lk>>

\* Database::create_agent (seed.rs): INSERT INTO agents
database_create_agent(id) ==
    /\ SqlCanRun
    /\ database' = IF id \in DOMAIN database.agents
                   THEN [database EXCEPT !.nops = @ + 1,
                            !.resp = SqlResp("create_agent", id, "Database", << >>)]
                   ELSE [database EXCEPT !.nops = @ + 1,
                            !.agents = @ @@ (id :> [status |-> "idle",
                                                    current_task |-> OsNoTask]),
                            !.resp = SqlResp("create_agent", id, "Ok", << >>)]
    /\ UNCHANGED <<acc, os, rx, blob, snap, storage, mock, lk>>

\* UPDATE agents SET .. WHERE id = ?: Ok also when no row has that id
DatabaseUpdate(ags, id, field, value) ==
    [a \in DOMAIN ags |-> IF a = id THEN [ags[a] EXCEPT ![field] = value] ELSE ags[a]]

\* commands.rs dispatch_task: create_task, update_agent_task, create_activity
database_dispatch_task(agent_id, description) ==
    /\ SqlCanRun
    /\ database' =
          IF database.fk /\ agent_id \notin DOMAIN database.agents
          THEN [database EXCEPT !.nops = @ + 1,
                   !.resp = SqlResp("dispatch_task", agent_id,
                                    "Failed to create task", << >>)]
          ELSE [database EXCEPT
                   !.nops = @ + 1, !.next = @ + 2,
                   !.tasks = @ \cup {[id |-> database.next, agent_id |-> agent_id]},
                   !.agents = DatabaseUpdate(@, agent_id, "current_task",
                                             OsSome(description)),
                   !.events = Append(@, [id |-> database.next + 1,
                                         agent_id |-> agent_id]),
                   !.resp = SqlResp("dispatch_task", agent_id, "Ok", << >>)]
    /\ UNCHANGED <<acc, os, rx, blob, snap, storage, mock, lk>>

\* commands.rs update_agent_status: update_agent_status, create_activity
database_update_agent_status(agent_id, status) ==
    /\ SqlCanRun
    /\ database' =
          IF database.fk /\ agent_id \notin DOMAIN database.agents
          THEN [database EXCEPT !.nops = @ + 1,
                   !.resp = SqlResp("update_agent_status", agent_id,
                                    "Failed to create activity", << >>)]
          ELSE [database EXCEPT
                   !.nops = @ + 1, !.next = @ + 1,
                   !.agents = DatabaseUpdate(@, agent_id, "status", status),
                   !.events = Append(@, [id |-> database.next, agent_id |-> agent_id]),
                   !.resp = SqlResp("update_agent_status", agent_id, "Ok", << >>)]
    /\ UNCHANGED <<acc, os, rx, blob, snap, storage, mock, lk>>

\* commands.rs get_activities: Database::get_activities(limit.unwrap_or(50)),
\* SELECT .. ORDER BY timestamp DESC LIMIT ?
database_get_activities(limit) ==
    /\ SqlCanRun
    /\ database' = [database EXCEPT
                       !.nops = @ + 1,
                       !.resp = SqlResp("get_activities", None, "Ok",
                                   NewestFirst(database.events,
                                       IF limit = OsNoTask THEN DatabaseDefaultLimit
                                       ELSE limit[1]))]
    /\ UNCHANGED <<acc, os, rx, blob, snap, storage, mock, lk>>

NextSql ==
    \/ \E a \in SqlAgentIds : storage_create_agent(a)
    \/ \E a \in SqlAgentIds : storage_create_task(a)
    \/ \E a \in SqlAgentIds : storage_create_event(a)
    \/ \E a \in SqlAgentIds : storage_delete_agent(a)
    \/ \E k \in SqlLimits : storage_list_events(k)
    \/ \E a \in SqlAgentIds : database_create_agent(a)
    \/ \E a \in SqlAgentIds, ins \in {<<"f","i","x">>} : database_dispatch_task(a, ins)
    \/ \E a \in SqlAgentIds, st \in {"running", "paused"} :
          database_update_agent_status(a, st)
    \/ \E k \in SqlLimits : database_get_activities(k)

SpecSql == InitSql /\ [][NextSql]_vars

\* C24: deleting an existing agent removes the agent and every task whose
\* agent_id is the agent's, removes no task of another agent, and leaves all
\* events in place, the events of the deleted agent included.
C24_DeleteAgentKeepsEvents ==
    [][(/\ storage'.nops = storage.nops + 1
        /\ storage'.resp.cmd = "delete_agent"
        /\ storage'.resp.agent_id \in storage.agents)
       => /\ storage'.agents = storage.agents \ {storage'.resp.agent_id}
          /\ storage'.tasks = NotOf(storage.tasks, storage'.resp.agent_id)
          /\ storage'.events = storage.events]_vars

\* C25: creating a task for an agent id that no stored agent has fails with
\* NotFound and stores no task, in the agentos Storage and in the
\* agent-control dispatch_task alike.
C25_TaskForMissingAgentRejected ==
    [][/\ (/\ storage'.nops = storage.nops + 1
           /\ storage'.resp.cmd = "create_task"
           /\ storage'.resp.agent_id \notin storage.agents)
          => /\ storage'.resp.res = "NotFound"
             /\ storage'.tasks = storage.tasks
       /\ (/\ database'.nops = database.nops + 1
           /\ database'.resp.cmd = "dispatch_task"
           /\ database'.resp.agent_id \notin DOMAIN database.agents)
          => /\ database'.resp.res = "NotFound"
             /\ database'.tasks = database.tasks]_vars

(* ------------------ one open task per agent (C36..C38) ------------------ *)
\* the tasks of agent a that are not terminal
OpenTasks(a) ==
    {t \in DOMAIN tasks : tasks[t].agent_id = a /\ tasks[t].status \in {"Pending", "Running"}}

\* C36: in every state, each agent owns at most one task whose status is
\* Pending or Running: no second task is admitted for an agent while an
\* earlier task of that agent is not terminal.
C36_OneOpenTaskPerAgent ==
    \A a \in DOMAIN agents : Cardinality(OpenTasks(a)) <= 1

\* C37: the agent write that ends execute(T) or fail(T) changes the stored
\* status and current_task_id of the owning agent only when the stored
\* current_task_id is T at that moment.
C37_FinishTouchesOnlyOwnAssignment ==
    [][\A p \in Procs :
          (/\ Steps(p)
           /\ h[p].pc \in {"e_update_agent", "f_update_agent"}
           /\ agents[h[p].agent_id].current_task_id # h[p].task_id)
          => (/\ agents'[h[p].agent_id].status = agents[h[p].agent_id].status
              /\ agents'[h[p].agent_id].current_task_id
                    = agents[h[p].agent_id].current_task_id)]_vars

\* C38: in every state reached by Dispatcher operations, every agent whose
\* stored status is Running has current_task_id set.
C38_RunningHasCurrentTask ==
    \A a \in DOMAIN agents :
        agents[a].status = "Running" => agents[a].current_task_id # None

\* C38 witness: a dispatch has returned Ok and its agent is stored Running
\* with that task as current task, while another handler is still in flight
C38_Witness ==
    /\ last.op = "dispatch"
    /\ last.res = "Ok"
    /\ agents[last.agent_id].status = "Running"
    /\ agents[last.agent_id].current_task_id = last.task_id
    /\ ~Quiescent

(* ------------------ notification after persistence (C39) ---------------- *)
\* the stored event that stands behind notification n
Backs(n, e) ==
    /\ e.task_id = n.task_id
    /\ CASE n.kind = "Started"    -> e.event_type = "TaskStarted"
         [] n.kind = "ThoughtLog" -> e.event_type = "ThoughtLog" /\ e.idx = n.idx
         [] n.kind = "Progress"   -> e.event_type = "ThoughtLog"
                                        /\ ProgressPct(e.idx - 1) = n.idx
         [] n.kind = "ApiCall"    -> e.event_type = "ApiCall"
         [] n.kind = "Completed"  -> e.event_type = "TaskCompleted"
         [] n.kind = "Failed"     -> e.event_type = "TaskFailed"
         [] OTHER -> FALSE

\* C39: every notification put on the channel in a step has, once the step is
\* done, its task in the store and its event in the stored log; and a step in
\* which a store call fails sends nothing and ends its handler with the
\* error, so that the handler sends nothing later either.
C39_NotifyAfterPersist ==
    [][/\ Len(sent') >= Len(sent)
       /\ \A k \in (Len(sent) + 1)..Len(sent') :
             /\ sent'[k].task_id \in DOMAIN tasks'
             /\ \E j \in 1..Len(events') : Backs(sent'[k], events'[j])
       /\ faults' # faults =>
             /\ sent' = sent
             /\ \E p \in Procs : Returns(p) /\ last'.res = "PersistenceFailure"]_vars

\* C39 witness: an execute has sent thought notifications for its task, each
\* backed by a stored event, and then ended on a failed store call without
\* sending Completed
C39_Witness ==
    /\ last.op = "execute"
    /\ last.res = "PersistenceFailure"
    /\ SentOf(last.task_id, "ThoughtLog") # {}
    /\ \A k \in SentOf(last.task_id, "ThoughtLog") :
          \E j \in 1..Len(events) : Backs(sent[k], events[j])
    /\ SentOf(last.task_id, "Completed") = {}

(* ---------------------- one event per operation (C40) ------------------- *)
\* the operations that log one event, and the type of that event
LoggedOps == {"dispatch", "cancel", "fail", "pause", "resume", "reset"}

LoggedType(op) ==
    CASE op = "dispatch" -> "TaskStarted"
      [] op = "cancel"   -> "Info"
      [] op = "fail"     -> "TaskFailed"
      [] OTHER           -> "StatusChange"

\* C40: the step in which dispatch, cancel, fail, pause, resume or reset
\* returns Ok after writing appends exactly one event, of the operation's
\* type, for its agent and task; every other step of these operations, and
\* the whole of a call that is rejected or that pauses an agent read as
\* Paused, appends none; and no step removes or changes an event already in
\* the log.
C40_OneEventPerOperation ==
    [][/\ Len(events') >= Len(events)
       /\ SubSeq(events', 1, Len(events)) = events
       /\ (Started /\ Call.op \in LoggedOps) => events' = events
       /\ \A p \in Procs :
             (Steps(p) /\ h[p].op \in LoggedOps) =>
                 IF h'[p].pc = "idle" /\ last'.res = "Ok"
                 THEN /\ events' = Append(events,
                            [agent_id |-> h[p].agent_id,
                             task_id |-> IF h[p].op \in {"pause", "resume", "reset"}
                                         THEN None ELSE h[p].task_id,
                             event_type |-> LoggedType(h[p].op), idx |-> 0])
                      /\ h[p].op = "pause" => h[p].pre # "Paused"
                 ELSE events' = events]_vars

\* C40 witness: a pause of an agent that was not Paused has returned Ok and
\* the log ends with its status-change event, the only one in the log
C40_Witness ==
    /\ last.op = "pause"
    /\ last.res = "Ok"
    /\ last.pre = "Running"
    /\ events[Len(events)] = [agent_id |-> last.agent_id, task_id |-> None,
                              event_type |-> "StatusChange", idx |-> 0]
    /\ Cardinality({k \in 1..Len(events) : events[k].event_type = "StatusChange"}) = 1
    /\ agents[last.agent_id].status = "Paused"

(* --------------- the text functions of the mock services --------------- *)
\* the characters outside ASCII that occur in the texts: two bytes each in
\* UTF-8 ("e-acute" stands for the one letter U+00E9)
TwoByteChars == {"e-acute"}

\* str::len: the length in bytes
ByteLen(s) == Len(s) + Cardinality({k \in 1..Len(s) : s[k] \in TwoByteChars})

\* the words the instruction texts are made of
Word ==
    [fix |-> <<"f","i","x">>,
     test |-> <<"t","e","s","t">>,
     review |-> <<"R","e","v","i","e","w">>,
     analyze |-> <<"a","n","a","l","y","z","e">>,
     build |-> <<"b","u","i","l","d">>,
     the |-> <<"T","h","e">>,
     go |-> <<"g","o">>,
     code |-> <<"c","o","d","e">>,
     data |-> <<"d","a","t","a">>,
     document |-> <<"d","o","c","u","m","e","n","t">>,
     ne |-> <<"n","e-acute">>]

\* the instruction texts: up to MaxWords words joined by single spaces, a
\* text of many words, and one with leading, doubled and trailing spaces
Texts ==
    {JoinSpace(ws) : ws \in UNION {[1..n -> {Word[f] : f \in DOMAIN Word}] : n \in 0..MaxWords}}
    \cup {JoinSpace(<<Word.fix, Word.the, Word.go, Word.test, Word.build, Word.code,
                      Word.data, Word.document, Word.analyze>>),
          <<" ","f","i","x"," "," ","g","o"," ">>}

\* extract_keywords: the stop words
Stopwords ==
    {<<"t","h","e">>, <<"a">>, <<"a","n">>, <<"i","s">>,
     <<"a","r","e">>, <<"t","o">>, <<"f","o","r">>, <<"a","n","d">>,
     <<"o","r">>, <<"o","f">>, <<"i","n">>, <<"o","n">>,
     <<"a","t">>}

\* extract_keywords: split_whitespace, filter on len() > 2, filter on the stop
\* words, take(5)
extract_keywords(text) ==
    LET long(w) == ByteLen(w) > 2
        kept(w) == ToLowercase(w) \notin Stopwords
    IN  OsTake(SelectSeq(SelectSeq(split_whitespace(text), long), kept), MaxKeywords)

\* mutant: the code category is tested before the research category
process_task_CodeFirst(instruction) ==
    LET low == ToLowercase(instruction)
        category ==
            IF Contains(low, <<"c","o","d","e">>) \/ Contains(low, <<"r","e","v","i","e","w">>) \/ Contains(low, <<"r","e","f","a","c","t","o","r">>)
            THEN "code"
            ELSE IF Contains(low, <<"r","e","s","e","a","r","c","h">>) \/ Contains(low, <<"a","n","a","l","y","z","e">>)
                    \/ Contains(low, <<"r","e","v","i","e","w"," ","d","o","c","u","m","e","n","t">>)
            THEN "research"
            ELSE IF Contains(low, <<"d","a","t","a">>) \/ Contains(low, <<"p","i","p","e","l","i","n","e">>) \/ Contains(low, <<"e","t","l">>)
            THEN "data"
            ELSE "default"
    IN  [category |-> category, index |-> ByteLen(instruction) % NumResponses]

\* MockAgentService::process_task: the answer is responses[category][index]
process_task(instruction) ==
    LET low == ToLowercase(instruction)
        category ==
            IF Contains(low, <<"r","e","s","e","a","r","c","h">>) \/ Contains(low, <<"a","n","a","l","y","z","e">>)
               \/ Contains(low, <<"r","e","v","i","e","w"," ","d","o","c","u","m","e","n","t">>)
            THEN "research"
            ELSE IF Contains(low, <<"c","o","d","e">>) \/ Contains(low, <<"r","e","v","i","e","w">>) \/ Contains(low, <<"r","e","f","a","c","t","o","r">>)
            THEN "code"
            ELSE IF Contains(low, <<"d","a","t","a">>) \/ Contains(low, <<"p","i","p","e","l","i","n","e">>) \/ Contains(low, <<"e","t","l">>)
            THEN "data"
            ELSE "default"
    IN  [category |-> category, index |-> ByteLen(instruction) % NumResponses]

\* generate_mock_result is called on the instruction text
call_generate_mock_result ==
    /\ mock' = [fn |-> "generate_mock_result", text |-> mock.text,
                out |-> generate_mock_result(mock.text)]
    /\ UNCHANGED <<acc, os, rx, blob, snap, storage, database, lk>>

\* extract_keywords is called on the instruction text
call_extract_keywords ==
    /\ mock' = [fn |-> "extract_keywords", text |-> mock.text,
                out |-> extract_keywords(mock.text)]
    /\ UNCHANGED <<acc, os, rx, blob, snap, storage, database, lk>>

\* process_task is called on the instruction text
call_process_task ==
    /\ mock' = [fn |-> "process_task", text |-> mock.text,
                out |-> process_task(mock.text)]
    /\ UNCHANGED <<acc, os, rx, blob, snap, storage, database, lk>>

\* any instruction text may be handed to the functions
InitText ==
    /\ InitStore
    /\ rx = << >>
    /\ blob = << >>
    /\ snap = << >>
    /\ storage = EmptyTables(FALSE)
    /\ database = EmptyDatabase(FALSE)
    /\ lk = NoLocks
    /\ \E t \in Texts : mock = [NoCall EXCEPT !.text = t]

NextText == call_generate_mock_result \/ call_extract_keywords \/ call_process_task

SpecText == InitText /\ [][NextText]_vars

\* the buckets of the result texts in the order of the specification, and the
\* first line of each bucket's text
Buckets ==
    << {<<"a","n","a","l","y","z","e">>, <<"r","e","v","i","e","w">>}, {<<"c","r","e","a","t","e">>, <<"b","u","i","l","d">>}, {<<"f","i","x">>, <<"r","e","s","o","l","v","e">>}, {<<"t","e","s","t">>, <<"v","e","r","i","f","y">>} >>

BucketText ==
    << "Analysis complete", "Task completed successfully", "Issue resolved",
       "Testing complete" >>

\* the buckets with a keyword in the lowercase text
Hits(low, buckets) ==
    {k \in 1..Len(buckets) : \E w \in buckets[k] : Contains(low, w)}

\* C33: the result text is that of the earliest bucket, in the order
\* analyze/review, create/build, fix/resolve, test/verify, that has a keyword
\* in the lowercase instruction, and the generic text when none has.
C33_FirstBucketWins ==
    mock.fn = "generate_mock_result" =>
        LET hits == Hits(ToLowercase(mock.text), Buckets)
        IN  IF hits = {}
            THEN /\ mock.out.kind = "Task completed"
                 /\ mock.out.arg = truncate(mock.text, 30)
            ELSE \A k \in hits :
                    (\A j \in hits : k <= j) => mock.out.kind = BucketText[k]

\* C33 witness: "fix analyze" has keywords of the third and of the first
\* bucket and got the text of the first
C33_Witness ==
    /\ mock.fn = "generate_mock_result"
    /\ mock.text = JoinSpace(<<Word.fix, Word.analyze>>)
    /\ Hits(ToLowercase(mock.text), Buckets) = {1, 3}
    /\ mock.out.kind = "Analysis complete"

\* C34: extract_keywords returns the first at most 5 of the whitespace-
\* separated tokens, in input order, that are longer than 2 characters and
\* are not a stop word when lowercased.
C34_KeywordsAreLongNonStopTokens ==
    mock.fn = "extract_keywords" =>
        LET qualifies(w) == Len(w) > 2 /\ ToLowercase(w) \notin Stopwords
            want == SelectSeq(split_whitespace(mock.text), qualifies)
        IN  mock.out = SubSeq(want, 1, IF Len(want) < 5 THEN Len(want) ELSE 5)

\* the categories of process_task in their order
Categories == << "research", "code", "data" >>

CategoryWords ==
    << {<<"r","e","s","e","a","r","c","h">>, <<"a","n","a","l","y","z","e">>, <<"r","e","v","i","e","w"," ","d","o","c","u","m","e","n","t">>}, {<<"c","o","d","e">>, <<"r","e","v","i","e","w">>, <<"r","e","f","a","c","t","o","r">>}, {<<"d","a","t","a">>, <<"p","i","p","e","l","i","n","e">>, <<"e","t","l">>} >>

\* C35: process_task answers with the response at index (length of the
\* instruction in bytes mod 3) of the first category, in the order research,
\* code, data, that has a keyword in the lowercase instruction, and of the
\* default category when none has.
C35_ProcessTaskFirstCategory ==
    mock.fn = "process_task" =>
        LET hits == Hits(ToLowercase(mock.text), CategoryWords)
        IN  /\ mock.out.index = ByteLen(mock.text) % 3
            /\ IF hits = {}
               THEN mock.out.category = "default"
               ELSE \A k \in hits :
                       (\A j \in hits : k <= j) => mock.out.category = Categories[k]

\* C35 witness: "Review document" has keywords of the research and of the
\* code category and got the first response of the research category
C35_Witness ==
    /\ mock.fn = "process_task"
    /\ mock.text = JoinSpace(<<Word.review, Word.document>>)
    /\ Hits(ToLowercase(mock.text), CategoryWords) = {1, 2}
    /\ mock.out = [category |-> "research", index |-> 0]

(* -------------------- execute blocks nobody (C31) ----------------------- *)
\* some execute is between its first step and its return
ExecuteInFlight == \E p \in Procs : h[p].op = "execute" /\ h[p].pc # "idle"

\* C31: in every state in which an execute is in flight, every handler in
\* flight can take its next step, and, when a handler slot is free and the
\* bound on invocations is not reached, every Dispatcher operation and the
\* store's agent update can start.
C31_ExecuteBlocksNobody ==
    ExecuteInFlight =>
        /\ \A q \in Procs : h[q].pc # "idle" => ENABLED Step(q)
        /\ (nops < MaxOps /\ ~(\A p \in Procs : h[p].pc # "idle")) =>
              /\ ENABLED (\E a \in AgentIds, ins \in Instructions, pr \in PriorityInputs :
                             dispatch(StartSlot, a, ins, pr))
              /\ ENABLED (\E t \in TaskIds : simulate_execution(StartSlot, t))
              /\ ENABLED (\E t \in TaskIds, m \in ErrorMessages : fail_task(StartSlot, t, m))
              /\ ENABLED (\E t \in TaskIds : cancel_task(StartSlot, t))
              /\ ENABLED (\E a \in AgentIds : pause_agent(StartSlot, a))
              /\ ENABLED (\E a \in AgentIds : resume_agent(StartSlot, a))
              /\ ENABLED (\E a \in AgentIds : reset_agent(StartSlot, a))
              /\ ENABLED (\E a \in AgentIds, n \in NameInputs : update_agent(StartSlot, a, n))

\* C31 witness: while an execute of a task is in flight, after its first
\* thought was logged, a cancel of that task started, logged its event and
\* returned Ok
C31_Witness ==
    /\ last.op = "cancel"
    /\ last.res = "Ok"
    /\ \E p \in Procs :
          /\ h[p].op = "execute"
          /\ h[p].pc \in {"e_thought", "e_api_call"}
          /\ h[p].task_id = last.task_id
    /\ \E i, j \in 1..Len(events) :
          /\ i < j
          /\ events[i].task_id = last.task_id /\ events[i].event_type = "ThoughtLog"
          /\ events[j].task_id = last.task_id /\ events[j].event_type = "Info"

(* ------------------- the locks of the command handlers ------------------ *)
\* The handlers at the level of their locks: what a handler does to the data
\* under its locks is left out here, and whether dispatch_task finds its
\* agent is an input. A handler takes its locks one by one and gives them all
\* back when it returns.

\* agentos main.rs: the commands; Agent Control Center ipc.rs: the commands
\* that go through the dispatcher
LockCommands ==
    {"get_agents", "create_agent", "update_agent_status", "dispatch_task", "stop_agent",
     "delete_agent", "get_activities", "clear_activities",
     "dispatch", "execute", "cancel"}

\* a std::sync::Mutex is a lock taken for writing
Mutex(lock) == [lock |-> lock, mode |-> "write"]

\* mutant: clear_activities goes on to lock the agents
LockPlan_ClearTakesAgents(cmd, found) ==
    CASE cmd = "dispatch_task" ->
            IF found THEN <<Mutex("agents"), Mutex("activities")>> ELSE <<Mutex("agents")>>
      [] cmd = "get_activities" -> <<Mutex("activities")>>
      [] cmd = "clear_activities" -> <<Mutex("activities"), Mutex("agents")>>
      [] cmd \in {"dispatch", "execute", "cancel"} ->
            <<[lock |-> "dispatcher", mode |-> DispatcherLockMode(cmd)]>>
      [] OTHER -> <<Mutex("agents")>>

\* the locks a handler takes, in the order in which it takes them:
\* dispatch_task locks the agents and, when it found its agent, the activities
\* while it still holds the agents
LockPlan(cmd, found) ==
    CASE cmd = "dispatch_task" ->
            IF found THEN <<Mutex("agents"), Mutex("activities")>> ELSE <<Mutex("agents")>>
      [] cmd \in {"get_activities", "clear_activities"} -> <<Mutex("activities")>>
      [] cmd \in {"dispatch", "execute", "cancel"} ->
            <<[lock |-> "dispatcher", mode |-> DispatcherLockMode(cmd)]>>
      [] OTHER -> <<Mutex("agents")>>

\* thread t holds `lock` in some mode of `modes`
Holds(t, lock, modes) ==
    \E k \in 1..Len(lk.th[t].held) :
        lk.th[t].held[k].lock = lock /\ lk.th[t].held[k].mode \in modes

\* lock() and write() wait until nobody holds the lock; read() waits while a
\* writer holds it
Granted(req) ==
    \A u \in Threads :
        ~Holds(u, req.lock, IF req.mode = "read" THEN {"write"} ELSE {"read", "write"})

\* the command arrives on thread t
lock_start(t, cmd, found) ==
    /\ lk.th[t].cmd = "idle"
    /\ lk.n < MaxLockOps
    /\ found \/ cmd = "dispatch_task"
    /\ lk' = [th |-> [lk.th EXCEPT ![t] = [cmd |-> cmd, found |-> found, held |-> << >>]],
              n |-> lk.n + 1]
    /\ UNCHANGED <<acc, os, rx, blob, snap, storage, database, mock>>

\* the handler on thread t takes its next lock
lock_acquire(t) ==
    LET plan == LockPlan(lk.th[t].cmd, lk.th[t].found)
        k    == Len(lk.th[t].held) + 1
    IN  /\ lk.th[t].cmd # "idle"
        /\ k <= Len(plan)
        /\ Granted(plan[k])
        /\ lk' = [lk EXCEPT !.th[t].held = Append(@, plan[k])]
        /\ UNCHANGED <<acc, os, rx, blob, snap, storage, database, mock>>

\* the handler on thread t has all its locks, does its work and returns: the
\* guards go out of scope
lock_release(t) ==
    /\ lk.th[t].cmd # "idle"
    /\ Len(lk.th[t].held) = Len(LockPlan(lk.th[t].cmd, lk.th[t].found))
    /\ lk' = [lk EXCEPT !.th[t] = [cmd |-> "idle", found |-> FALSE, held |-> << >>]]
    /\ UNCHANGED <<acc, os, rx, blob, snap, storage, database, mock>>

NextLocks ==
    \E t \in Threads :
        \/ \E cmd \in LockCommands, found \in BOOLEAN : lock_start(t, cmd, found)
        \/ lock_acquire(t)
        \/ lock_release(t)

SpecLocks == Init /\ [][NextLocks]_vars

\* C32: in every state in which some handler is running, some running handler
\* can take its next lock or return; no handler that holds the activities
\* lock asks for the agents lock; and nobody holds the dispatcher lock for
\* writing.
C32_NoDeadlock ==
    /\ (\E t \in Threads : lk.th[t].cmd # "idle")
          => ENABLED (\E t \in Threads : lock_acquire(t) \/ lock_release(t))
    /\ \A t \in Threads :
          LET plan == LockPlan(lk.th[t].cmd, lk.th[t].found)
              k    == Len(lk.th[t].held) + 1
          IN  (lk.th[t].cmd # "idle" /\ k <= Len(plan)
               /\ Holds(t, "activities", {"read", "write"}))
              => plan[k].lock # "agents"
    /\ \A t \in Threads : ~Holds(t, "dispatcher", {"write"})

\* C32 witness: a dispatch_task holds the agents and the activities lock while
\* a clear_activities on another thread waits for the activities lock
C32_Witness ==
    \E t, u \in Threads :
        /\ lk.th[t].cmd = "dispatch_task"
        /\ Len(lk.th[t].held) = 2
        /\ lk.th[u].cmd = "clear_activities"
        /\ lk.th[u].held = << >>
        /\ ~ENABLED lock_acquire(u)
        /\ ENABLED lock_release(t)

====
